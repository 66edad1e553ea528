------------------------ MODULE ControlPlane_proofs ------------------------
(***************************************************************************)
(* Proofs about ControlPlane, for any set of connections, names and ports  *)
(* and any choice of failures.                                             *)
(***************************************************************************)
EXTENDS ControlPlane, TLAPS

-----------------------------------------------------------------------------
(* Registries *)

\* NoPort lies outside the range, so an entry and its absence never look alike.
LEMMA NoPortIsNotAPort == NoPort \notin Ports
  BY PortRangeAssumption DEF NoPort, Ports

\* The registry a first start has (Registry::default) is one.
LEMMA EmptyIsRegistry == EmptyRegistry \in Registries /\ PortsUnique(EmptyRegistry)
  BY DEF EmptyRegistry, Registries, PortsUnique, Active

\* The key of a request that has one is a key of the registry (compose_key).
LEMMA KeyIsComposite ==
    ASSUME NEW r \in Requests, r.op # "other"
    PROVE  KeyOf(r) \in Composites
<1>1. r \in [op : {"register", "deregister"}, user : Users, service : Services]
  BY DEF Requests
<1>2. r.user \in Users /\ r.service \in Services
  BY <1>1
<1> QED
  BY <1>2 DEF KeyOf, Composites

\* allocate_port keeps ports unique: the port it picks is used by no entry.
LEMMA AllocationKeepsUnique ==
    ASSUME NEW reg \in Registries, PortsUnique(reg), NEW k \in Composites,
           NEW p, AllocatesPort(reg, p)
    PROVE  PortsUnique([reg EXCEPT ![k] = p])
  BY DEF Registries, PortsUnique, AllocatesPort, Active, Used

\* Removing an entry keeps ports unique (Registry::deregister).
LEMMA RemovalKeepsUnique ==
    ASSUME NEW reg \in Registries, PortsUnique(reg), NEW k \in Composites
    PROVE  PortsUnique([reg EXCEPT ![k] = NoPort])
  BY DEF Registries, PortsUnique, Active

-----------------------------------------------------------------------------
(* The inductive invariant *)

\* The first start finds no file and nginx routing nothing (main.rs:50).
LEMMA InitEstablishes == Init => IndInv
<1> SUFFICES ASSUME Init PROVE IndInv
  OBVIOUS
<1> USE ThreadsAssumption, FilesAssumption, EmptyIsRegistry DEF Init
<1>1. TypeOK
  BY DEF TypeOK, Threads, ConnSteps, MainSteps, ListenerSteps, Answers, NoAnswer
<1>2. Exclusive /\ Prepared
  BY DEF Exclusive, Prepared, Threads, ListenerSteps, Serving
<1>3. NoSharedPort /\ RestartLoads
  BY DEF NoSharedPort, RestartLoads
<1>4. SavedUnlessFailed /\ RoutedUnlessFailed
  BY DEF SavedUnlessFailed, RoutedUnlessFailed, Threads
<1> QED
  BY <1>1, <1>2, <1>3, <1>4 DEF IndInv

\* While the mutex is free nobody is in the critical section.
LEMMA FreeMeansOutside ==
    ASSUME IndInv, owner = Nobody
    PROVE  \A t \in Threads : pc[t] \notin ListenerSteps \cup {"unlock"}
  BY ThreadsAssumption DEF IndInv, Exclusive, Threads

\* The thread inside is alone there (handle_connection holds the guard).
LEMMA OwnerIsAlone ==
    ASSUME IndInv, NEW t \in Threads, pc[t] \in ListenerSteps
    PROVE  \A u \in Threads \ {t} : pc[u] \notin ListenerSteps \cup {"unlock"}
  BY DEF IndInv, Exclusive, Threads

\* A connection's step outside the listener, registry and files untouched.
LEMMA OutsideKeeps ==
    ASSUME IndInv, TypeOK', Exclusive',
           NEW c \in Conn, pc[c] \notin ListenerSteps,
           \E s \in ConnSteps \ ListenerSteps : Goto(c, s),
           UNCHANGED <<entries, files, nginx, failed>>
    PROVE  IndInv'
<1> USE ThreadsAssumption DEF IndInv, files, nginx
<1>1. /\ pc'[Main] = pc[Main]
      /\ \A t \in Threads : pc[t] \in ListenerSteps \/ pc'[t] \in ListenerSteps
                             => pc'[t] = pc[t]
  BY DEF TypeOK, Goto, Threads
<1>2. NoSharedPort' /\ RestartLoads'
  BY DEF NoSharedPort, RestartLoads
<1>3. Prepared'
  BY <1>1 DEF Prepared, ListenerSteps
<1>4. SavedUnlessFailed'
  BY <1>1 DEF SavedUnlessFailed, ListenerSteps
<1>5. RoutedUnlessFailed'
  BY <1>1 DEF RoutedUnlessFailed, MidChange
<1> QED
  BY <1>2, <1>3, <1>4, <1>5 DEF IndInv

\* accept() starts a thread outside the critical section.
LEMMA AcceptKeeps ==
    ASSUME IndInv, NEW c \in Conn, Accept(c)
    PROVE  IndInv'
<1> USE ThreadsAssumption
<1>1. TypeOK'
  BY DEF IndInv, TypeOK, Accept, Goto, Threads, ListenerSteps, ConnSteps,
      MainSteps, Serving, files, nginx, Requests, Answers, NoAnswer
<1>2. Exclusive'
  BY DEF IndInv, TypeOK, Exclusive, Accept, Goto, Threads, ListenerSteps,
      ConnSteps, MainSteps, Serving, files, nginx
<1>3. pc[c] \notin ListenerSteps /\ \E s \in ConnSteps \ ListenerSteps : Goto(c, s)
  BY DEF Accept, Goto, ConnSteps, ListenerSteps
<1> QED
  BY <1>1, <1>2, <1>3, OutsideKeeps DEF Accept

\* read_request runs before the mutex is asked for.
LEMMA ReceiveKeeps ==
    ASSUME IndInv, NEW c \in Conn, Receive(c)
    PROVE  IndInv'
<1> USE ThreadsAssumption
<1>1. TypeOK'
  BY DEF IndInv, TypeOK, Receive, Goto, Threads, ListenerSteps, ConnSteps,
      MainSteps, Serving, files, nginx, Requests, Answers, NoAnswer
<1>2. Exclusive'
  BY DEF IndInv, TypeOK, Exclusive, Receive, Goto, Threads, ListenerSteps,
      ConnSteps, MainSteps, Serving, files, nginx
<1>3. pc[c] \notin ListenerSteps /\ \E s \in ConnSteps \ ListenerSteps : Goto(c, s)
  BY DEF Receive, Goto, ConnSteps, ListenerSteps
<1> QED
  BY <1>1, <1>2, <1>3, OutsideKeeps DEF Receive

\* A malformed connection is closed before the mutex is asked for.
LEMMA RejectKeeps ==
    ASSUME IndInv, NEW c \in Conn, Reject(c)
    PROVE  IndInv'
<1> USE ThreadsAssumption
<1>1. TypeOK'
  BY DEF IndInv, TypeOK, Reject, Goto, Threads, ListenerSteps, ConnSteps,
      MainSteps, Serving, files, nginx, Requests, Answers, NoAnswer
<1>2. Exclusive'
  BY DEF IndInv, TypeOK, Exclusive, Reject, Goto, Threads, ListenerSteps,
      ConnSteps, MainSteps, Serving, files, nginx
<1>3. pc[c] \notin ListenerSteps /\ \E s \in ConnSteps \ ListenerSteps : Goto(c, s)
  BY DEF Reject, Goto, ConnSteps, ListenerSteps
<1> QED
  BY <1>1, <1>2, <1>3, OutsideKeeps DEF Reject

\* A route that reads the registry takes the mutex and leaves it as it is.
LEMMA HandleOtherKeeps ==
    ASSUME IndInv, NEW c \in Conn, HandleOther(c)
    PROVE  IndInv'
<1> USE ThreadsAssumption
<1>1. TypeOK'
  BY DEF IndInv, TypeOK, HandleOther, Acquire, Reply, Goto, Threads,
      ListenerSteps, ConnSteps, MainSteps, Serving, files, nginx, Requests,
      Answers, NoAnswer
<1>2. Exclusive'
  BY DEF IndInv, TypeOK, Exclusive, HandleOther, Acquire, Reply, Goto,
      Threads, ListenerSteps, ConnSteps, MainSteps, Serving, files, nginx
<1>3. pc[c] \notin ListenerSteps /\ \E s \in ConnSteps \ ListenerSteps : Goto(c, s)
  BY DEF HandleOther, Acquire, Reply, Goto, ConnSteps, ListenerSteps
<1> QED
  BY <1>1, <1>2, <1>3, OutsideKeeps DEF HandleOther, Acquire, Reply

\* A blank name is refused under the mutex, changing nothing.
LEMMA RegisterBlankKeeps ==
    ASSUME IndInv, NEW c \in Conn, RegisterBlank(c)
    PROVE  IndInv'
<1> USE ThreadsAssumption
<1>1. TypeOK'
  BY DEF IndInv, TypeOK, RegisterBlank, Acquire, Reply, Goto, Threads,
      ListenerSteps, ConnSteps, MainSteps, Serving, files, nginx, Requests,
      Answers, NoAnswer
<1>2. Exclusive'
  BY DEF IndInv, TypeOK, Exclusive, RegisterBlank, Acquire, Reply, Goto,
      Threads, ListenerSteps, ConnSteps, MainSteps, Serving, files, nginx
<1>3. pc[c] \notin ListenerSteps /\ \E s \in ConnSteps \ ListenerSteps : Goto(c, s)
  BY DEF RegisterBlank, Acquire, Reply, Goto, ConnSteps, ListenerSteps
<1> QED
  BY <1>1, <1>2, <1>3, OutsideKeeps DEF RegisterBlank, Acquire, Reply

\* An exhausted range is reported under the mutex, changing nothing.
LEMMA RegisterExhaustedKeeps ==
    ASSUME IndInv, NEW c \in Conn, RegisterExhausted(c)
    PROVE  IndInv'
<1> USE ThreadsAssumption
<1>1. TypeOK'
  BY DEF IndInv, TypeOK, RegisterExhausted, Acquire, Reply, Goto, Threads,
      ListenerSteps, ConnSteps, MainSteps, Serving, files, nginx, Requests,
      Answers, NoAnswer
<1>2. Exclusive'
  BY DEF IndInv, TypeOK, Exclusive, RegisterExhausted, Acquire, Reply, Goto,
      Threads, ListenerSteps, ConnSteps, MainSteps, Serving, files, nginx
<1>3. pc[c] \notin ListenerSteps /\ \E s \in ConnSteps \ ListenerSteps : Goto(c, s)
  BY DEF RegisterExhausted, Acquire, Reply, Goto, ConnSteps, ListenerSteps
<1> QED
  BY <1>1, <1>2, <1>3, OutsideKeeps DEF RegisterExhausted, Acquire, Reply

\* Nothing to remove, nothing to save: the last save still stands.
LEMMA DeregisterAbsentKeeps ==
    ASSUME IndInv, NEW c \in Conn, DeregisterAbsent(c)
    PROVE  IndInv'
<1> USE ThreadsAssumption
<1>1. TypeOK'
  BY DEF IndInv, TypeOK, DeregisterAbsent, Acquire, Reply, Goto, Threads,
      ListenerSteps, ConnSteps, MainSteps, Serving, files, nginx, Requests,
      Answers, NoAnswer
<1>2. Exclusive'
  BY DEF IndInv, TypeOK, Exclusive, DeregisterAbsent, Acquire, Reply, Goto,
      Threads, ListenerSteps, ConnSteps, MainSteps, Serving, files, nginx
<1>3. pc[c] \notin ListenerSteps /\ \E s \in ConnSteps \ ListenerSteps : Goto(c, s)
  BY DEF DeregisterAbsent, Acquire, Reply, Goto, ConnSteps, ListenerSteps
<1> QED
  BY <1>1, <1>2, <1>3, OutsideKeeps DEF DeregisterAbsent, Acquire, Reply

\* The guard is dropped with the listener finished.
LEMMA UnlockKeeps ==
    ASSUME IndInv, NEW c \in Conn, Unlock(c)
    PROVE  IndInv'
<1> USE ThreadsAssumption
<1>1. TypeOK'
  BY DEF IndInv, TypeOK, Unlock, Goto, Threads, ListenerSteps, ConnSteps,
      MainSteps, Serving, files, nginx, Requests, Answers, NoAnswer
<1>2. Exclusive'
  BY DEF IndInv, TypeOK, Exclusive, Unlock, Goto, Threads, ListenerSteps,
      ConnSteps, MainSteps, Serving, files, nginx
<1>3. pc[c] \notin ListenerSteps /\ \E s \in ConnSteps \ ListenerSteps : Goto(c, s)
  BY DEF Unlock, Goto, ConnSteps, ListenerSteps
<1> QED
  BY <1>1, <1>2, <1>3, OutsideKeeps DEF Unlock

\* The answer is written outside the critical section.
LEMMA RespondKeeps ==
    ASSUME IndInv, NEW c \in Conn, Respond(c)
    PROVE  IndInv'
<1> USE ThreadsAssumption
<1>1. TypeOK'
  BY DEF IndInv, TypeOK, Respond, Goto, Threads, ListenerSteps, ConnSteps,
      MainSteps, Serving, files, nginx, Requests, Answers, NoAnswer
<1>2. Exclusive'
  BY DEF IndInv, TypeOK, Exclusive, Respond, Goto, Threads, ListenerSteps,
      ConnSteps, MainSteps, Serving, files, nginx
<1>3. pc[c] \notin ListenerSteps /\ \E s \in ConnSteps \ ListenerSteps : Goto(c, s)
  BY DEF Respond, Goto, ConnSteps, ListenerSteps
<1> QED
  BY <1>1, <1>2, <1>3, OutsideKeeps DEF Respond

\* An idempotent /register leaves the registry and calls the listener.
LEMMA RegisterAgainKeeps ==
    ASSUME IndInv, NEW c \in Conn, RegisterAgain(c)
    PROVE  IndInv'
<1> USE ThreadsAssumption, FilesAssumption DEF IndInv
<1>1. \A t \in Threads : pc[t] \notin ListenerSteps \cup {"unlock"}
  BY FreeMeansOutside DEF RegisterAgain, Acquire, ReplyAndNotify
<1>2. c \in Threads /\ pc'[c] = "open" /\ pc'[Main] = "serve"
  BY DEF TypeOK, Exclusive, RegisterAgain, Acquire, ReplyAndNotify, Goto,
      Threads, Serving
<1>3. KeyOf(req[c]) \in Composites
  BY KeyIsComposite DEF TypeOK, RegisterAgain, Acquire, ReplyAndNotify,
      Registers, NoRequest
<1>4. TypeOK'
  BY <1>3 DEF TypeOK, RegisterAgain, Acquire, ReplyAndNotify, Goto, Threads,
      ListenerSteps, ConnSteps, MainSteps, Serving, files, nginx, Requests,
      Answers, Registries, NoAnswer
<1>5. Exclusive'
  BY DEF TypeOK, Exclusive, RegisterAgain, Acquire, ReplyAndNotify, Goto,
      Threads, ListenerSteps, ConnSteps, MainSteps, Serving, files, nginx
<1>6. NoSharedPort' /\ RestartLoads'
  BY DEF TypeOK, NoSharedPort, RestartLoads, RegisterAgain, Acquire,
      ReplyAndNotify, Goto, Threads, ListenerSteps, ConnSteps, MainSteps,
      Serving, files, nginx
<1>7. Prepared'
  BY <1>1, <1>2 DEF TypeOK, Prepared, RegisterAgain, Acquire, ReplyAndNotify,
      Goto, Threads, ListenerSteps, ConnSteps, MainSteps, Serving, files,
      nginx
<1>8. SavedUnlessFailed' /\ RoutedUnlessFailed'
  BY <1>2 DEF TypeOK, SavedUnlessFailed, RoutedUnlessFailed, RegisterAgain,
      Acquire, ReplyAndNotify, Goto, Threads, ListenerSteps, ConnSteps,
      MainSteps, Serving, files, nginx, MidChange
<1> QED
  BY <1>4, <1>5, <1>6, <1>7, <1>8 DEF IndInv

\* A new key gets a port no entry uses.
LEMMA RegisterNewKeeps ==
    ASSUME IndInv, NEW c \in Conn, RegisterNew(c)
    PROVE  IndInv'
<1> USE ThreadsAssumption, FilesAssumption DEF IndInv
<1>1. \A t \in Threads : pc[t] \notin ListenerSteps \cup {"unlock"}
  BY FreeMeansOutside DEF RegisterNew, Acquire, ReplyAndNotify
<1>2. c \in Threads /\ pc'[c] = "open" /\ pc'[Main] = "serve"
  BY DEF TypeOK, Exclusive, RegisterNew, Acquire, ReplyAndNotify, Goto,
      Threads, Serving
<1>3. KeyOf(req[c]) \in Composites
  BY KeyIsComposite DEF TypeOK, RegisterNew, Acquire, ReplyAndNotify,
      Registers, NoRequest
<1>4. PICK p \in Ports : /\ AllocatesPort(entries, p)
                        /\ entries' = [entries EXCEPT ![KeyOf(req[c])] = p]
  BY DEF RegisterNew
<1>5. TypeOK'
  BY <1>3, <1>4 DEF TypeOK, RegisterNew, Acquire, ReplyAndNotify, Goto,
      Threads, ListenerSteps, ConnSteps, MainSteps, Serving, files, nginx,
      Requests, Answers, Registries, NoAnswer
<1>6. Exclusive'
  BY DEF TypeOK, Exclusive, RegisterNew, Acquire, ReplyAndNotify, Goto,
      Threads, ListenerSteps, ConnSteps, MainSteps, Serving, files, nginx
<1>7. NoSharedPort' /\ RestartLoads'
  BY <1>3, <1>4, AllocationKeepsUnique DEF TypeOK, NoSharedPort, RestartLoads,
      RegisterNew, Acquire, ReplyAndNotify, Goto, Threads, ListenerSteps,
      ConnSteps, MainSteps, Serving, files, nginx
<1>8. Prepared'
  BY <1>1, <1>2 DEF TypeOK, Prepared, RegisterNew, Acquire, ReplyAndNotify,
      Goto, Threads, ListenerSteps, ConnSteps, MainSteps, Serving, files,
      nginx
<1>9. SavedUnlessFailed' /\ RoutedUnlessFailed'
  BY <1>2 DEF TypeOK, SavedUnlessFailed, RoutedUnlessFailed, RegisterNew,
      Acquire, ReplyAndNotify, Goto, Threads, ListenerSteps, ConnSteps,
      MainSteps, Serving, files, nginx, MidChange
<1> QED
  BY <1>5, <1>6, <1>7, <1>8, <1>9 DEF IndInv

\* Removing an entry frees its port.
LEMMA DeregisterKeeps ==
    ASSUME IndInv, NEW c \in Conn, Deregister(c)
    PROVE  IndInv'
<1> USE ThreadsAssumption, FilesAssumption DEF IndInv
<1>1. \A t \in Threads : pc[t] \notin ListenerSteps \cup {"unlock"}
  BY FreeMeansOutside DEF Deregister, Acquire, ReplyAndNotify
<1>2. c \in Threads /\ pc'[c] = "open" /\ pc'[Main] = "serve"
  BY DEF TypeOK, Exclusive, Deregister, Acquire, ReplyAndNotify, Goto,
      Threads, Serving
<1>3. KeyOf(req[c]) \in Composites
  BY KeyIsComposite DEF TypeOK, Deregister, Acquire, ReplyAndNotify,
      Registers, NoRequest
<1>4. TypeOK'
  BY <1>3 DEF TypeOK, Deregister, Acquire, ReplyAndNotify, Goto, Threads,
      ListenerSteps, ConnSteps, MainSteps, Serving, files, nginx, Requests,
      Answers, Registries, NoAnswer
<1>5. Exclusive'
  BY DEF TypeOK, Exclusive, Deregister, Acquire, ReplyAndNotify, Goto,
      Threads, ListenerSteps, ConnSteps, MainSteps, Serving, files, nginx
<1>6. NoSharedPort' /\ RestartLoads'
  BY <1>3, RemovalKeepsUnique DEF TypeOK, NoSharedPort, RestartLoads,
      Deregister, Acquire, ReplyAndNotify, Goto, Threads, ListenerSteps,
      ConnSteps, MainSteps, Serving, files, nginx
<1>7. Prepared'
  BY <1>1, <1>2 DEF TypeOK, Prepared, Deregister, Acquire, ReplyAndNotify,
      Goto, Threads, ListenerSteps, ConnSteps, MainSteps, Serving, files,
      nginx
<1>8. SavedUnlessFailed' /\ RoutedUnlessFailed'
  BY <1>2 DEF TypeOK, SavedUnlessFailed, RoutedUnlessFailed, Deregister,
      Acquire, ReplyAndNotify, Goto, Threads, ListenerSteps, ConnSteps,
      MainSteps, Serving, files, nginx, MidChange
<1> QED
  BY <1>4, <1>5, <1>6, <1>7, <1>8 DEF IndInv

\* Truncating the temporary file touches no file a restart reads.
LEMMA OpenTmpKeeps ==
    ASSUME IndInv, NEW t \in Threads, OpenTmp(t)
    PROVE  IndInv'
<1> USE ThreadsAssumption, FilesAssumption DEF IndInv
<1>1. \A u \in Threads \ {t} : pc[u] \notin ListenerSteps \cup {"unlock"}
  BY OwnerIsAlone DEF OpenTmp, ListenerSteps
<1>2. pc[Main] # "down"
  BY DEF TypeOK, Exclusive, OpenTmp, Threads, Serving, ListenerSteps
<1>3. TypeOK'
  BY DEF TypeOK, OpenTmp, Goto, Threads, ListenerSteps, ConnSteps, MainSteps,
      Serving, files, nginx, Requests, Answers, Registries, NoAnswer
<1>4. Exclusive'
  BY DEF TypeOK, Exclusive, OpenTmp, Goto, Threads, ListenerSteps, ConnSteps,
      MainSteps, Serving, files, nginx
<1>5. NoSharedPort' /\ RestartLoads'
  BY DEF TypeOK, NoSharedPort, RestartLoads, OpenTmp, Goto, Threads,
      ListenerSteps, ConnSteps, MainSteps, Serving, files, nginx
<1>6. Prepared'
  BY <1>1 DEF TypeOK, Prepared, OpenTmp, Goto, Threads, ListenerSteps,
      ConnSteps, MainSteps, Serving, files, nginx
<1>7. SavedUnlessFailed' /\ RoutedUnlessFailed'
  BY <1>2, <1>1 DEF TypeOK, SavedUnlessFailed, RoutedUnlessFailed, OpenTmp,
      Goto, Threads, ListenerSteps, ConnSteps, MainSteps, Serving, files,
      nginx, MidChange
<1> QED
  BY <1>3, <1>4, <1>5, <1>6, <1>7 DEF IndInv

\* What is written is the registry the listener was called with.
LEMMA FillTmpKeeps ==
    ASSUME IndInv, NEW t \in Threads, FillTmp(t)
    PROVE  IndInv'
<1> USE ThreadsAssumption, FilesAssumption DEF IndInv
<1>1. \A u \in Threads \ {t} : pc[u] \notin ListenerSteps \cup {"unlock"}
  BY OwnerIsAlone DEF FillTmp, ListenerSteps
<1>2. pc[Main] # "down"
  BY DEF TypeOK, Exclusive, FillTmp, Threads, Serving, ListenerSteps
<1>3. TypeOK'
  BY DEF TypeOK, FillTmp, Goto, Threads, ListenerSteps, ConnSteps, MainSteps,
      Serving, files, nginx, Requests, Answers, Registries, NoAnswer
<1>4. Exclusive'
  BY DEF TypeOK, Exclusive, FillTmp, Goto, Threads, ListenerSteps, ConnSteps,
      MainSteps, Serving, files, nginx
<1>5. NoSharedPort' /\ RestartLoads'
  BY DEF TypeOK, NoSharedPort, RestartLoads, FillTmp, Goto, Threads,
      ListenerSteps, ConnSteps, MainSteps, Serving, files, nginx
<1>6. Prepared'
  BY <1>1 DEF TypeOK, Prepared, FillTmp, Goto, Threads, ListenerSteps,
      ConnSteps, MainSteps, Serving, files, nginx
<1>7. SavedUnlessFailed' /\ RoutedUnlessFailed'
  BY <1>2, <1>1 DEF TypeOK, SavedUnlessFailed, RoutedUnlessFailed, FillTmp,
      Goto, Threads, ListenerSteps, ConnSteps, MainSteps, Serving, files,
      nginx, MidChange
<1> QED
  BY <1>3, <1>4, <1>5, <1>6, <1>7 DEF IndInv

\* The rename puts a complete copy of the registry in place.
LEMMA RenameTmpKeeps ==
    ASSUME IndInv, NEW t \in Threads, RenameTmp(t)
    PROVE  IndInv'
<1> USE ThreadsAssumption, FilesAssumption DEF IndInv
<1>1. \A u \in Threads \ {t} : pc[u] \notin ListenerSteps \cup {"unlock"}
  BY OwnerIsAlone DEF RenameTmp, ListenerSteps
<1>2. pc[Main] # "down"
  BY DEF TypeOK, Exclusive, RenameTmp, Threads, Serving, ListenerSteps
<1>3. tmp = entries
  BY DEF Prepared, RenameTmp
<1>4. TypeOK'
  BY <1>3 DEF TypeOK, RenameTmp, Goto, Threads, ListenerSteps, ConnSteps,
      MainSteps, Serving, files, nginx, Requests, Answers, Registries,
      NoAnswer
<1>5. Exclusive'
  BY DEF TypeOK, Exclusive, RenameTmp, Goto, Threads, ListenerSteps,
      ConnSteps, MainSteps, Serving, files, nginx
<1>6. NoSharedPort' /\ RestartLoads'
  BY <1>3 DEF TypeOK, NoSharedPort, RestartLoads, RenameTmp, Goto, Threads,
      ListenerSteps, ConnSteps, MainSteps, Serving, files, nginx
<1>7. Prepared'
  BY <1>1 DEF TypeOK, Prepared, RenameTmp, Goto, Threads, ListenerSteps,
      ConnSteps, MainSteps, Serving, files, nginx
<1>8. SavedUnlessFailed' /\ RoutedUnlessFailed'
  BY <1>3, <1>1, <1>2 DEF TypeOK, SavedUnlessFailed, RoutedUnlessFailed,
      RenameTmp, Goto, Threads, ListenerSteps, ConnSteps, MainSteps, Serving,
      files, nginx, MidChange
<1> QED
  BY <1>4, <1>5, <1>6, <1>7, <1>8 DEF IndInv

\* A failing save leaves the old file whole.
LEMMA SaveFailsKeeps ==
    ASSUME IndInv, NEW t \in Threads, SaveFails(t)
    PROVE  IndInv'
<1> USE ThreadsAssumption, FilesAssumption DEF IndInv
<1>1. \A u \in Threads \ {t} : pc[u] \notin ListenerSteps \cup {"unlock"}
  BY OwnerIsAlone DEF SaveFails, ListenerSteps
<1>2. pc[Main] # "down"
  BY DEF TypeOK, Exclusive, SaveFails, Threads, Serving, ListenerSteps
<1>3. TypeOK'
  BY DEF TypeOK, SaveFails, Goto, Threads, ListenerSteps, ConnSteps,
      MainSteps, Serving, files, nginx, Requests, Answers, Registries,
      NoAnswer
<1>4. Exclusive'
  BY DEF TypeOK, Exclusive, SaveFails, Goto, Threads, ListenerSteps,
      ConnSteps, MainSteps, Serving, files, nginx
<1>5. NoSharedPort' /\ RestartLoads'
  BY DEF TypeOK, NoSharedPort, RestartLoads, SaveFails, Goto, Threads,
      ListenerSteps, ConnSteps, MainSteps, Serving, files, nginx
<1>6. Prepared'
  BY <1>1 DEF TypeOK, Prepared, SaveFails, Goto, Threads, ListenerSteps,
      ConnSteps, MainSteps, Serving, files, nginx
<1>7. SavedUnlessFailed' /\ RoutedUnlessFailed'
  BY <1>2, <1>1 DEF TypeOK, SavedUnlessFailed, RoutedUnlessFailed, SaveFails,
      Goto, Threads, ListenerSteps, ConnSteps, MainSteps, Serving, files,
      nginx, MidChange
<1> QED
  BY <1>3, <1>4, <1>5, <1>6, <1>7 DEF IndInv

\* The configuration is the registry, rendered.
LEMMA WriteConfKeeps ==
    ASSUME IndInv, NEW t \in Threads, WriteConf(t)
    PROVE  IndInv'
<1> USE ThreadsAssumption, FilesAssumption DEF IndInv
<1>1. \A u \in Threads \ {t} : pc[u] \notin ListenerSteps \cup {"unlock"}
  BY OwnerIsAlone DEF WriteConf, ListenerSteps
<1>2. pc[Main] # "down"
  BY DEF TypeOK, Exclusive, WriteConf, Threads, Serving, ListenerSteps
<1>3. TypeOK'
  BY DEF TypeOK, WriteConf, Goto, Threads, ListenerSteps, ConnSteps,
      MainSteps, Serving, files, nginx, Requests, Answers, Registries,
      NoAnswer
<1>4. Exclusive'
  BY DEF TypeOK, Exclusive, WriteConf, Goto, Threads, ListenerSteps,
      ConnSteps, MainSteps, Serving, files, nginx
<1>5. NoSharedPort' /\ RestartLoads'
  BY DEF TypeOK, NoSharedPort, RestartLoads, WriteConf, Goto, Threads,
      ListenerSteps, ConnSteps, MainSteps, Serving, files, nginx
<1>6. Prepared'
  BY <1>1 DEF TypeOK, Prepared, WriteConf, Goto, Threads, ListenerSteps,
      ConnSteps, MainSteps, Serving, files, nginx
<1>7. SavedUnlessFailed' /\ RoutedUnlessFailed'
  BY <1>2, <1>1 DEF TypeOK, SavedUnlessFailed, RoutedUnlessFailed, WriteConf,
      Goto, Threads, ListenerSteps, ConnSteps, MainSteps, Serving, files,
      nginx, MidChange
<1> QED
  BY <1>3, <1>4, <1>5, <1>6, <1>7 DEF IndInv

\* A refused render leaves nginx as it was.
LEMMA ConfFailsKeeps ==
    ASSUME IndInv, NEW t \in Threads, ConfFails(t)
    PROVE  IndInv'
<1> USE ThreadsAssumption, FilesAssumption DEF IndInv
<1>1. \A u \in Threads \ {t} : pc[u] \notin ListenerSteps \cup {"unlock"}
  BY OwnerIsAlone DEF ConfFails, ListenerDone, HandOver, ListenerSteps
<1>2. pc[Main] # "down"
  BY DEF TypeOK, Exclusive, ConfFails, ListenerDone, HandOver, Threads,
      Serving, ListenerSteps
<1>3. TypeOK'
  BY DEF TypeOK, ConfFails, ListenerDone, HandOver, Goto, Threads,
      ListenerSteps, ConnSteps, MainSteps, Serving, files, nginx, Requests,
      Answers, Registries, NoAnswer
<1>4. Exclusive'
  BY DEF TypeOK, Exclusive, ConfFails, ListenerDone, HandOver, Goto, Threads,
      ListenerSteps, ConnSteps, MainSteps, Serving, files, nginx
<1>5. NoSharedPort' /\ RestartLoads'
  BY DEF TypeOK, NoSharedPort, RestartLoads, ConfFails, ListenerDone,
      HandOver, Goto, Threads, ListenerSteps, ConnSteps, MainSteps, Serving,
      files, nginx
<1>6. Prepared'
  BY <1>1 DEF TypeOK, Prepared, ConfFails, ListenerDone, HandOver, Goto,
      Threads, ListenerSteps, ConnSteps, MainSteps, Serving, files, nginx
<1>7. SavedUnlessFailed' /\ RoutedUnlessFailed'
  BY <1>2, <1>1 DEF TypeOK, SavedUnlessFailed, RoutedUnlessFailed, ConfFails,
      ListenerDone, HandOver, Goto, Threads, ListenerSteps, ConnSteps,
      MainSteps, Serving, files, nginx, MidChange
<1> QED
  BY <1>3, <1>4, <1>5, <1>6, <1>7 DEF IndInv

\* nginx takes over the configuration just written.
LEMMA ReloadKeeps ==
    ASSUME IndInv, NEW t \in Threads, Reload(t)
    PROVE  IndInv'
<1> USE ThreadsAssumption, FilesAssumption DEF IndInv
<1>1. \A u \in Threads \ {t} : pc[u] \notin ListenerSteps \cup {"unlock"}
  BY OwnerIsAlone DEF Reload, ListenerDone, HandOver, ListenerSteps
<1>2. pc[Main] # "down"
  BY DEF TypeOK, Exclusive, Reload, ListenerDone, HandOver, Threads, Serving,
      ListenerSteps
<1>3. conf = entries
  BY DEF Prepared, Reload
<1>4. TypeOK'
  BY DEF TypeOK, Reload, ListenerDone, HandOver, Goto, Threads, ListenerSteps,
      ConnSteps, MainSteps, Serving, files, nginx, Requests, Answers,
      Registries, NoAnswer
<1>5. Exclusive'
  BY DEF TypeOK, Exclusive, Reload, ListenerDone, HandOver, Goto, Threads,
      ListenerSteps, ConnSteps, MainSteps, Serving, files, nginx
<1>6. NoSharedPort' /\ RestartLoads'
  BY DEF TypeOK, NoSharedPort, RestartLoads, Reload, ListenerDone, HandOver,
      Goto, Threads, ListenerSteps, ConnSteps, MainSteps, Serving, files,
      nginx
<1>7. Prepared'
  BY <1>1 DEF TypeOK, Prepared, Reload, ListenerDone, HandOver, Goto, Threads,
      ListenerSteps, ConnSteps, MainSteps, Serving, files, nginx
<1>8. SavedUnlessFailed' /\ RoutedUnlessFailed'
  BY <1>2, <1>1, <1>3 DEF TypeOK, SavedUnlessFailed, RoutedUnlessFailed,
      Reload, ListenerDone, HandOver, Goto, Threads, ListenerSteps, ConnSteps,
      MainSteps, Serving, files, nginx, MidChange
<1> QED
  BY <1>4, <1>5, <1>6, <1>7, <1>8 DEF IndInv

\* A failing reload leaves nginx as it was.
LEMMA ReloadFailsKeeps ==
    ASSUME IndInv, NEW t \in Threads, ReloadFails(t)
    PROVE  IndInv'
<1> USE ThreadsAssumption, FilesAssumption DEF IndInv
<1>1. \A u \in Threads \ {t} : pc[u] \notin ListenerSteps \cup {"unlock"}
  BY OwnerIsAlone DEF ReloadFails, ListenerDone, HandOver, ListenerSteps
<1>2. pc[Main] # "down"
  BY DEF TypeOK, Exclusive, ReloadFails, ListenerDone, HandOver, Threads,
      Serving, ListenerSteps
<1>3. TypeOK'
  BY DEF TypeOK, ReloadFails, ListenerDone, HandOver, Goto, Threads,
      ListenerSteps, ConnSteps, MainSteps, Serving, files, nginx, Requests,
      Answers, Registries, NoAnswer
<1>4. Exclusive'
  BY DEF TypeOK, Exclusive, ReloadFails, ListenerDone, HandOver, Goto,
      Threads, ListenerSteps, ConnSteps, MainSteps, Serving, files, nginx
<1>5. NoSharedPort' /\ RestartLoads'
  BY DEF TypeOK, NoSharedPort, RestartLoads, ReloadFails, ListenerDone,
      HandOver, Goto, Threads, ListenerSteps, ConnSteps, MainSteps, Serving,
      files, nginx
<1>6. Prepared'
  BY <1>1 DEF TypeOK, Prepared, ReloadFails, ListenerDone, HandOver, Goto,
      Threads, ListenerSteps, ConnSteps, MainSteps, Serving, files, nginx
<1>7. SavedUnlessFailed' /\ RoutedUnlessFailed'
  BY <1>2, <1>1 DEF TypeOK, SavedUnlessFailed, RoutedUnlessFailed,
      ReloadFails, ListenerDone, HandOver, Goto, Threads, ListenerSteps,
      ConnSteps, MainSteps, Serving, files, nginx, MidChange
<1> QED
  BY <1>3, <1>4, <1>5, <1>6, <1>7 DEF IndInv

\* What the memory held is lost, the files and nginx stay as they are.
LEMMA CrashKeeps ==
    ASSUME IndInv, Crash
    PROVE  IndInv'
<1> USE ThreadsAssumption, FilesAssumption DEF IndInv
<1>1. pc' = [t \in Threads |-> IF t = Main THEN "down" ELSE "idle"] /\ pc[Main] # "down"
  BY DEF Crash
<1>2. /\ pc'[Main] = "down"
      /\ \A t \in Threads : pc'[t] \notin ListenerSteps
  BY <1>1 DEF Threads, ListenerSteps
<1>3. ~MidChange /\ "disk" \notin failed => disk = entries
  BY <1>1 DEF SavedUnlessFailed, MidChange, ListenerSteps
<1>4. TypeOK'
  BY EmptyIsRegistry DEF TypeOK, Crash, Goto, Threads, ListenerSteps,
      ConnSteps, MainSteps, Serving, files, nginx, Requests, Answers,
      Registries, NoAnswer
<1>5. Exclusive'
  BY DEF TypeOK, Exclusive, Crash, Goto, Threads, ListenerSteps, ConnSteps,
      MainSteps, Serving, files, nginx
<1>6. NoSharedPort' /\ RestartLoads'
  BY EmptyIsRegistry DEF TypeOK, NoSharedPort, RestartLoads, Crash, Goto,
      Threads, ListenerSteps, ConnSteps, MainSteps, Serving, files, nginx
<1>7. Prepared'
  BY DEF TypeOK, Prepared, Crash, Goto, Threads, ListenerSteps, ConnSteps,
      MainSteps, Serving, files, nginx
<1>8. SavedUnlessFailed' /\ RoutedUnlessFailed'
  BY <1>1, <1>2, <1>3 DEF TypeOK, SavedUnlessFailed, RoutedUnlessFailed,
      Crash, Goto, Threads, ListenerSteps, ConnSteps, MainSteps, Serving,
      files, nginx, MidChange
<1> QED
  BY <1>4, <1>5, <1>6, <1>7, <1>8 DEF IndInv

\* The registry is the file, and main has it to itself.
LEMMA LoadKeeps ==
    ASSUME IndInv, Load
    PROVE  IndInv'
<1> USE ThreadsAssumption, FilesAssumption DEF IndInv
<1>1. disk \in Registries
  BY DEF TypeOK, Load
<1>2. \A t \in Threads : pc'[t] \in {"idle", "serve", "open"}
  BY DEF TypeOK, Exclusive, Load, Goto, Threads, Serving
<1>3. owner' \in {Main, Nobody} /\ pc' \in [Threads -> ConnSteps \cup MainSteps]
      /\ pc'[Main] \in {"serve", "open"} /\ \A c \in Conn : pc'[c] = pc[c]
      /\ failed' \subseteq {"disk", "live"}
  BY DEF TypeOK, Load, Goto, Threads, MainSteps, ListenerSteps
<1>4. TypeOK'
  <2>1. entries' \in Registries
    BY <1>1, EmptyIsRegistry DEF Load
  <2>2. pc' \in [Threads -> ConnSteps \cup MainSteps] /\ \A c \in Conn : pc'[c] \in ConnSteps
    BY <1>3 DEF TypeOK
  <2>3. owner' \in Threads \cup {Nobody} /\ pc'[Main] \in MainSteps
    BY <1>3 DEF Threads, MainSteps, ListenerSteps
  <2>4. UNCHANGED <<req, answer, disk, tmp, conf, live>>
    BY DEF Load, files, nginx
  <2>5. failed' \subseteq {"disk", "live"}
    BY DEF TypeOK, Load
  <2> QED
    BY <2>1, <2>2, <2>3, <2>4, <2>5 DEF TypeOK
<1>5. Exclusive'
  BY DEF TypeOK, Exclusive, Load, Goto, Threads, ListenerSteps, ConnSteps,
      MainSteps, Serving, files, nginx
<1>6. NoSharedPort' /\ RestartLoads'
  BY DEF TypeOK, NoSharedPort, RestartLoads, Load, Goto, Threads,
      ListenerSteps, ConnSteps, MainSteps, Serving, files, nginx
<1>7. Prepared'
  BY <1>2 DEF TypeOK, Prepared, Load, Goto, Threads, ListenerSteps, ConnSteps,
      MainSteps, Serving, files, nginx
<1>8. SavedUnlessFailed' /\ RoutedUnlessFailed'
  BY DEF TypeOK, SavedUnlessFailed, RoutedUnlessFailed, Load, Goto, Threads,
      ListenerSteps, ConnSteps, MainSteps, Serving, files, nginx, MidChange
<1> QED
  BY <1>4, <1>5, <1>6, <1>7, <1>8 DEF IndInv

\* Every step of the control plane preserves the invariant.
LEMMA StepPreserves == IndInv /\ [Next]_vars => IndInv'
<1> SUFFICES ASSUME IndInv, [Next]_vars PROVE IndInv'
  OBVIOUS
<1>1. ASSUME NEW c \in Conn,
              Accept(c) \/ Receive(c) \/ Reject(c) \/ Handle(c) \/ Unlock(c) \/ Respond(c)
      PROVE  IndInv'
  BY <1>1, AcceptKeeps, ReceiveKeeps, RejectKeeps, HandleOtherKeeps,
      RegisterBlankKeeps, RegisterAgainKeeps, RegisterNewKeeps,
      RegisterExhaustedKeeps, DeregisterKeeps, DeregisterAbsentKeeps,
      UnlockKeeps, RespondKeeps DEF Handle
<1>2. ASSUME NEW t \in Threads, Listen(t)
      PROVE  IndInv'
  BY <1>2, OpenTmpKeeps, FillTmpKeeps, RenameTmpKeeps, SaveFailsKeeps,
      WriteConfKeeps, ConfFailsKeeps, ReloadKeeps, ReloadFailsKeeps DEF Listen
<1>3. CASE Crash
  BY <1>3, CrashKeeps
<1>4. CASE Load
  BY <1>4, LoadKeeps
<1>5. CASE UNCHANGED vars
  BY <1>5 DEF vars, files, nginx, IndInv, TypeOK, Exclusive, NoSharedPort,
      RestartLoads, Prepared, SavedUnlessFailed, RoutedUnlessFailed, MidChange,
      Serving
<1> QED
  BY <1>1, <1>2, <1>3, <1>4, <1>5 DEF Next

\* The invariant holds in every reachable state.
THEOREM Invariance == Spec => []IndInv
<1>1. Init => IndInv
  BY InitEstablishes
<1>2. IndInv /\ [Next]_vars => IndInv'
  BY StepPreserves
<1> QED
  BY <1>1, <1>2, PTL DEF Spec

-----------------------------------------------------------------------------
(* The properties *)

\* Every variable keeps to the values the code gives it.
THEOREM TypeCorrect == Spec => []TypeOK
<1>1. IndInv => TypeOK
  BY DEF IndInv
<1> QED
  BY <1>1, Invariance, PTL

\* No two sessions ever share a port, in any copy of the registry.
THEOREM PortsNeverShared == Spec => []NoSharedPort
<1>1. IndInv => NoSharedPort
  BY DEF IndInv
<1> QED
  BY <1>1, Invariance, PTL

\* A crash at any point leaves a registry.json the next start can load.
THEOREM RestartAlwaysLoads == Spec => []RestartLoads
<1>1. IndInv => RestartLoads
  BY DEF IndInv
<1> QED
  BY <1>1, Invariance, PTL

\* Between two requests registry.json is the registry, unless a save failed.
THEOREM DiskIsCurrent == Spec => []DiskCurrent
<1>1. IndInv => DiskCurrent
  <2> SUFFICES ASSUME IndInv, Settled, "disk" \notin failed
               PROVE  disk = entries
    BY DEF DiskCurrent
  <2>1. \A t \in Threads : pc[t] \notin ListenerSteps
    BY FreeMeansOutside DEF Settled
  <2> QED
    BY <2>1 DEF IndInv, SavedUnlessFailed, ListenerSteps, Settled, Serving
<1> QED
  BY <1>1, Invariance, PTL

\* Between two requests nginx routes the registered sessions and no others,
\* unless a render or reload failed.
THEOREM LiveIsCurrent == Spec => []LiveCurrent
<1>1. IndInv => LiveCurrent
  <2> SUFFICES ASSUME IndInv, Settled, "live" \notin failed
               PROVE  live = entries
    BY DEF LiveCurrent
  <2>1. ~MidChange
    BY FreeMeansOutside DEF Settled, MidChange
  <2> QED
    BY <2>1 DEF IndInv, RoutedUnlessFailed, Settled, Serving
<1> QED
  BY <1>1, Invariance, PTL

\* Only a registration, or main before it serves, gives a key a port.
LEMMA GrantIsRegistration ==
    ASSUME IndInv, [Next]_vars, Serving,
           NEW k \in Composites, entries[k] = NoPort, entries'[k] # NoPort
    PROVE  /\ owner = Nobody
           /\ \E p \in Ports : /\ AllocatesPort(entries, p)
                               /\ entries'[k] = p
<1>1. CASE \E c \in Conn : RegisterNew(c)
  BY <1>1 DEF IndInv, TypeOK, Registries, RegisterNew, Acquire
<1>2. CASE \E c \in Conn : Deregister(c)
  BY <1>2 DEF IndInv, TypeOK, Registries, Deregister
<1>3. CASE \E c \in Conn : \/ Accept(c) \/ Receive(c) \/ Reject(c)
                           \/ Unlock(c) \/ Respond(c)
                           \/ HandleOther(c) \/ RegisterBlank(c) \/ RegisterAgain(c)
                           \/ RegisterExhausted(c) \/ DeregisterAbsent(c)
  BY <1>3 DEF Accept, Receive, Reject, Unlock, Respond, HandleOther,
      RegisterBlank, RegisterAgain, RegisterExhausted, DeregisterAbsent, Reply
<1>4. CASE \E t \in Threads : Listen(t)
  BY <1>4 DEF Listen, OpenTmp, FillTmp, RenameTmp, SaveFails, WriteConf,
      ConfFails, Reload, ReloadFails
<1>5. CASE Crash
  BY <1>5 DEF Crash, EmptyRegistry
<1>6. CASE Load
  BY <1>6 DEF Load, Serving
<1>7. CASE UNCHANGED vars
  BY <1>7 DEF vars
<1> QED
  BY <1>1, <1>2, <1>3, <1>4, <1>5, <1>6, <1>7 DEF Next, Handle

\* A port handed to a new session is routed to nobody at that moment, unless
\* the last reload failed: nginx already routes the registry the port is free in.
THEOREM HandoverIsSafe == Spec => PortHandover
<1> DEFINE Handover ==
        Serving /\ "live" \notin failed =>
            \A k \in Composites :
                entries[k] = NoPort /\ entries'[k] # NoPort =>
                    \A j \in Composites : live[j] # entries'[k]
<1>1. IndInv /\ [Next]_vars => [Handover]_vars
  <2> SUFFICES ASSUME IndInv, [Next]_vars, Serving, "live" \notin failed,
                      NEW k \in Composites, entries[k] = NoPort, entries'[k] # NoPort,
                      NEW j \in Composites
               PROVE  live[j] # entries'[k]
    OBVIOUS
  <2>1. owner = Nobody
    BY GrantIsRegistration
  <2>2. entries'[k] \in Ports \ Used(entries)
    BY GrantIsRegistration DEF AllocatesPort
  <2>3. ~MidChange
    BY <2>1, FreeMeansOutside DEF MidChange
  <2>4. live = entries
    BY <2>3 DEF IndInv, RoutedUnlessFailed, Serving
  <2> QED
    BY <2>2, <2>4, NoPortIsNotAPort DEF Used, Active
<1> QED
  BY <1>1, Invariance, PTL DEF PortHandover, Spec

-----------------------------------------------------------------------------
(* The control plane implements the lease service *)


\* Both start with nothing leased and nothing saved.
LEMMA RefinesInit == Init => Leases!Init
  BY DEF Init, Leases!Init, Leases!EmptyRegistry, EmptyRegistry,
      Leases!Composites, Composites, Leases!Compose, Compose, Leases!NoPort,
      NoPort, Threads

\* Every step is a grant, a release, a save, a restart or changes no lease.
LEMMA RefinesStep == IndInv /\ [Next]_vars => [Leases!Next]_(Leases!vars)
<1> SUFFICES ASSUME IndInv, [Next]_vars
             PROVE  [Leases!Next]_(Leases!vars)
  OBVIOUS
<1> USE ThreadsAssumption
<1> USE DEF Leases!vars, Leases!Next
<1>1. CASE \E c \in Conn : RegisterNew(c)
  <2> PICK c \in Conn : RegisterNew(c)
    BY <1>1
  <2> DEFINE k == KeyOf(req[c])
  <2>1. PICK p \in Ports : /\ AllocatesPort(entries, p)
                           /\ entries' = [entries EXCEPT ![k] = p]
    BY DEF RegisterNew
  <2>2. pc[Main] # "down" /\ pc'[Main] # "down"
    BY DEF IndInv, TypeOK, Exclusive, RegisterNew, Acquire, ReplyAndNotify, Goto,
        Threads, Serving
  <2>3. k \in Composites
    BY KeyIsComposite DEF IndInv, TypeOK, RegisterNew, Registers, NoRequest
  <2>4. Leases!NoPort = NoPort /\ Leases!Ports = Ports
    BY DEF Leases!NoPort, NoPort, Leases!Ports, Ports
  <2>5. Leases!Used(entries) = Used(entries)
    BY <2>4 DEF Leases!Used, Used, Leases!Active, Active, Leases!Composites, Composites,
        Leases!Compose, Compose
  <2>6. p \in Ports \ Used(entries) /\ entries[k] = NoPort /\ disk' = disk
    BY <2>1 DEF RegisterNew, ReplyAndNotify, files, AllocatesPort
  <2>7. Leases!Grant(k)
    BY <2>1, <2>2, <2>4, <2>5, <2>6 DEF Leases!Grant
  <2> QED
    BY <2>3, <2>7 DEF Leases!Composites, Composites, Leases!Compose, Compose
<1>2. CASE \E c \in Conn : Deregister(c)
  <2> PICK c \in Conn : Deregister(c)
    BY <1>2
  <2> DEFINE k == KeyOf(req[c])
  <2>1. pc[Main] # "down" /\ pc'[Main] # "down"
    BY DEF IndInv, TypeOK, Exclusive, Deregister, Acquire, ReplyAndNotify, Goto,
        Threads, Serving
  <2>2. k \in Composites
    BY KeyIsComposite DEF IndInv, TypeOK, Deregister, NoRequest
  <2>3. Leases!Release(k)
    BY <2>1 DEF Deregister, ReplyAndNotify, files, Leases!Release, Leases!NoPort, NoPort
  <2> QED
    BY <2>2, <2>3 DEF Leases!Composites, Composites, Leases!Compose, Compose
<1>3. CASE \E c \in Conn : \/ Accept(c) \/ Receive(c) \/ Reject(c)
                           \/ Unlock(c) \/ Respond(c)
                           \/ HandleOther(c) \/ RegisterBlank(c) \/ RegisterAgain(c)
                           \/ RegisterExhausted(c) \/ DeregisterAbsent(c)
  <2>1. /\ pc'[Main] = pc[Main]
        /\ entries' = entries /\ disk' = disk
    BY <1>3 DEF IndInv, TypeOK, Goto, Threads, files, Reply, ReplyAndNotify, Accept,
        Receive, Reject, Unlock, Respond, HandleOther, RegisterBlank, RegisterAgain,
        RegisterExhausted, DeregisterAbsent
  <2> QED
    BY <2>1
<1>4. CASE \E t \in Threads : RenameTmp(t)
  <2>1. /\ pc[Main] # "down" /\ pc'[Main] # "down"
        /\ entries' = entries /\ disk' = entries
    BY <1>4 DEF IndInv, TypeOK, Exclusive, Prepared, RenameTmp, Goto, Threads, Serving,
        ListenerSteps
  <2>2. Leases!Save
    BY <2>1 DEF Leases!Save
  <2> QED
    BY <2>2
<1>5. CASE \E t \in Threads : \/ OpenTmp(t) \/ FillTmp(t) \/ SaveFails(t)
                              \/ WriteConf(t) \/ ConfFails(t)
                              \/ Reload(t) \/ ReloadFails(t)
  <2>1. /\ pc[Main] # "down" /\ pc'[Main] # "down"
        /\ entries' = entries /\ disk' = disk
    BY <1>5 DEF IndInv, TypeOK, Exclusive, Goto, Threads, Serving, ListenerSteps, files,
        ListenerDone, OpenTmp, FillTmp, SaveFails, WriteConf, ConfFails, Reload,
        ReloadFails
  <2> QED
    BY <2>1
<1>6. CASE Crash
  <2>1. pc[Main] # "down" /\ pc'[Main] = "down" /\ disk' = disk
    BY <1>6 DEF Crash, Threads, files
  <2>2. Leases!Restart
    BY <2>1 DEF Leases!Restart
  <2> QED
    BY <2>2
<1>7. CASE Load
  <2>1. pc[Main] = "down" /\ pc'[Main] # "down" /\ entries' = disk /\ disk' = disk
    BY <1>7 DEF IndInv, TypeOK, Load, Goto, Threads, files
  <2> QED
    BY <2>1
<1>8. CASE UNCHANGED vars
  BY <1>8 DEF vars, files
<1> QED
  BY <1>1, <1>2, <1>3, <1>4, <1>5, <1>6, <1>7, <1>8 DEF Next, Handle, Listen

\* Whatever fails, and wherever the process dies, the control plane is a lease
\* service: exclusive ports, kept until released, and restarts that come back
\* with one complete saved registry.
THEOREM ImplementsLeases == Spec => LeaseSpec
<1>1. Init => Leases!Init
  BY RefinesInit
<1>2. IndInv /\ [Next]_vars => [Leases!Next]_(Leases!vars)
  BY RefinesStep
<1> QED
  BY <1>1, <1>2, Invariance, PTL DEF Spec, LeaseSpec, Leases!Spec

=============================================================================
