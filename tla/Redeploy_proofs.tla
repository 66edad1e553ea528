--------------------------- MODULE Redeploy_proofs --------------------------
(***************************************************************************)
(* Proofs about Redeploy, for any number of operators, instances and       *)
(* builds, while init and destroy run as Provisioner says.                 *)
(***************************************************************************)
EXTENDS Redeploy, Provisioner_proofs

-----------------------------------------------------------------------------
(* Files *)

LEMMA Fresh ==
    ASSUME NEW v \in Versions
    PROVE  /\ Downloaded(v) \in AtMostOneFile /\ Downloaded(v) # {}
           /\ \A f \in Downloaded(v) : f.version = v
<1>1. [version |-> v, executable |-> FALSE] \in Files
  BY DEF Files
<1> QED
  <2> DEFINE e == [version |-> v, executable |-> FALSE]
  <2>1. Downloaded(v) = {e} /\ e.version = v /\ e \in Files
    BY <1>1 DEF Downloaded
  <2> HIDE DEF e
  <2> QED
    BY <2>1 DEF AtMostOneFile

\* chmod changes what is there, and nothing else about it.
LEMMA Chmodded ==
    ASSUME NEW x \in AtMostOneFile
    PROVE  /\ MadeExecutable(x) \in AtMostOneFile
           /\ x # {} => MadeExecutable(x) # {}
           /\ \A f \in MadeExecutable(x) : f.executable
           /\ \A v : (\A f \in x : f.version = v) => \A f \in MadeExecutable(x) : f.version = v
<1>1. CASE x = {}
  BY <1>1 DEF MadeExecutable, AtMostOneFile
<1>2. ASSUME NEW f \in Files, x = {f}
      PROVE  /\ MadeExecutable(x) \in AtMostOneFile
             /\ x # {} => MadeExecutable(x) # {}
             /\ \A g \in MadeExecutable(x) : g.executable
             /\ \A v : (\A g \in x : g.version = v) => \A g \in MadeExecutable(x) : g.version = v
  <2> DEFINE e == [f EXCEPT !.executable = TRUE]
  <2>1. MadeExecutable(x) = {e}
    BY <1>2 DEF MadeExecutable
  <2>2. e \in Files /\ e.executable /\ e.version = f.version
    BY DEF Files
  <2> HIDE DEF e
  <2> QED
    BY <1>2, <2>1, <2>2 DEF AtMostOneFile
<1> QED
  BY <1>1, <1>2 DEF AtMostOneFile

\* A version made executable is one file.
LEMMA OneFile ==
    ASSUME NEW x \in AtMostOneFile, x # {}, NEW v, \A f \in x : f.version = v /\ f.executable
    PROVE  x = Executable(v)
<1>1. PICK f \in Files : x = {f}
  BY DEF AtMostOneFile
<1>2. f.version = v /\ f.executable /\ f.executable \in BOOLEAN
  BY <1>1 DEF Files
<1>3. f = [version |-> v, executable |-> TRUE]
  BY <1>2 DEF Files
<1> QED
  BY <1>1, <1>3 DEF Executable

LEMMA ExecutableOnes == \A v : Executable(v) # {} /\ \A f \in Executable(v) : f.version = v /\ f.executable
  BY DEF Executable

\* What systemd starts is the file that is there.
LEMMA StartsWhatIsThere ==
    /\ \A x \in AtMostOneFile : Started(x) \in Versions \cup {Down}
    /\ \A v : Started(Executable(v)) = v
<1>1. ASSUME NEW x \in AtMostOneFile
      PROVE  Started(x) \in Versions \cup {Down}
  <2>1. CASE ~\E f \in x : f.executable
    BY <2>1 DEF Started
  <2>2. ASSUME NEW g \in x
        PROVE  (CHOOSE f \in x : TRUE).version \in Versions
    BY <2>2 DEF AtMostOneFile, Files
  <2> QED
    BY <2>1, <2>2 DEF Started
<1>2. ASSUME NEW v
      PROVE  Started(Executable(v)) = v
  <2> DEFINE e == [version |-> v, executable |-> TRUE]
  <2>1. Executable(v) = {e} /\ e.executable /\ e.version = v
    BY DEF Executable
  <2>2. (CHOOSE f \in {e} : TRUE) = e
    OBVIOUS
  <2> HIDE DEF e
  <2> QED
    BY <2>1, <2>2 DEF Started
<1> QED
  BY <1>1, <1>2

-----------------------------------------------------------------------------
(* The initial states *)

LEMMA HostInitEstablishes == CloudInit => HostIndInv
<1> SUFFICES ASSUME CloudInit
             PROVE  HostIndInv
  OBVIOUS
<1> USE OperatorsAssumption DEF CloudInit, Init, HostInit
<1>1. HostTypeOK
  BY DEF HostTypeOK, AtMostOneFile, ScriptOver, Versions
<1>2. StepsInOrder /\ HostsInOrder
  BY DEF StepsInOrder, HostsInOrder, Live
<1>3. LoneRedeploy
  BY DEF LoneRedeploy, Active, ScriptOver, Lone
<1> QED
  BY <1>1, <1>2, <1>3 DEF HostIndInv

-----------------------------------------------------------------------------
(* The instance's own steps *)

\* What is fetched from now on is what a lone redeploy uploaded.
LEMMA BootFetchesKeeps == ASSUME HostIndInv, NEW i \in Instances, BootFetches(i) PROVE HostIndInv'
<1> USE DEF HostIndInv, BootFetches, BootGoes, InstanceRuns, vars, redeploy, MayFetch
<1>1. HostTypeOK'
  BY OperatorsAssumption, Fresh, Chmodded, StartsWhatIsThere DEF HostTypeOK, StepsInOrder, ScriptOver, Versions
<1>2. StepsInOrder'
  BY OperatorsAssumption DEF HostTypeOK, StepsInOrder, ScriptOver
<1>3. HostsInOrder'
  BY OperatorsAssumption, Fresh, Chmodded, StartsWhatIsThere DEF HostTypeOK, StepsInOrder, HostsInOrder, Live
<1>4. LoneRedeploy'
  BY OperatorsAssumption, Fresh, Chmodded, StartsWhatIsThere, OneFile, ExecutableOnes
     DEF HostTypeOK, StepsInOrder, HostsInOrder, LoneRedeploy, FindsItsBuild, Lone, Active
<1> QED
  BY <1>1, <1>2, <1>3, <1>4

LEMMA BootMakesExecutableKeeps == ASSUME HostIndInv, NEW i \in Instances, BootMakesExecutable(i) PROVE HostIndInv'
<1> USE DEF HostIndInv, BootMakesExecutable, BootGoes, InstanceRuns, vars, redeploy
<1>1. HostTypeOK'
  BY OperatorsAssumption, Fresh, Chmodded, StartsWhatIsThere DEF HostTypeOK, StepsInOrder, ScriptOver, Versions
<1>2. StepsInOrder'
  BY OperatorsAssumption DEF HostTypeOK, StepsInOrder, ScriptOver
<1>3. HostsInOrder'
  BY OperatorsAssumption, Fresh, Chmodded, StartsWhatIsThere DEF HostTypeOK, StepsInOrder, HostsInOrder, Live
<1>4. LoneRedeploy'
  <2> SUFFICES ASSUME NEW r \in Operators, Lone(r), FindsItsBuild(r)
               PROVE  FindsItsBuild(r)'
    BY DEF LoneRedeploy, Lone, Active
  <2>1. CASE onto[r] # i
    BY <2>1 DEF FindsItsBuild, HostTypeOK
  <2>2. CASE onto[r] = i
    <3>1. /\ bin[i] \in AtMostOneFile /\ bin[i] # {} /\ bin'[i] = MadeExecutable(bin[i])
          /\ bin'[i] \in AtMostOneFile
      BY Chmodded DEF HostTypeOK, HostsInOrder
    <3>2. script[r] \in {"swapped", "restarted", "Success"} => bin'[i] = Executable(r)
      BY <2>2, <3>1, Chmodded, OneFile DEF FindsItsBuild
    <3> QED
      BY <2>2, <3>2, ExecutableOnes DEF FindsItsBuild, HostTypeOK
  <2> QED
    BY <2>1, <2>2
<1> QED
  BY <1>1, <1>2, <1>3, <1>4

LEMMA BootStartsKeeps == ASSUME HostIndInv, NEW i \in Instances, BootStarts(i) PROVE HostIndInv'
<1> USE DEF HostIndInv, BootStarts, BootGoes, InstanceRuns, vars, redeploy
<1>1. HostTypeOK'
  BY OperatorsAssumption, Fresh, Chmodded, StartsWhatIsThere DEF HostTypeOK, StepsInOrder, ScriptOver, Versions
<1>2. StepsInOrder'
  BY OperatorsAssumption DEF HostTypeOK, StepsInOrder, ScriptOver
<1>3. HostsInOrder'
  BY OperatorsAssumption, Fresh, Chmodded, StartsWhatIsThere DEF HostTypeOK, StepsInOrder, HostsInOrder, Live
<1>4. LoneRedeploy'
  BY OperatorsAssumption, Fresh, Chmodded, StartsWhatIsThere, OneFile, ExecutableOnes
     DEF HostTypeOK, StepsInOrder, HostsInOrder, LoneRedeploy, FindsItsBuild, Lone, Active
<1> QED
  BY <1>1, <1>2, <1>3, <1>4

LEMMA BootAbortsKeeps == ASSUME HostIndInv, NEW i \in Instances, BootAborts(i) PROVE HostIndInv'
<1> USE DEF HostIndInv, BootAborts, BootGoes, InstanceRuns, vars, redeploy
<1>1. HostTypeOK'
  BY OperatorsAssumption, Fresh, Chmodded, StartsWhatIsThere DEF HostTypeOK, StepsInOrder, ScriptOver, Versions
<1>2. StepsInOrder'
  BY OperatorsAssumption DEF HostTypeOK, StepsInOrder, ScriptOver
<1>3. HostsInOrder'
  BY OperatorsAssumption, Fresh, Chmodded, StartsWhatIsThere DEF HostTypeOK, StepsInOrder, HostsInOrder, Live
<1>4. LoneRedeploy'
  BY OperatorsAssumption, Fresh, Chmodded, StartsWhatIsThere, OneFile, ExecutableOnes
     DEF HostTypeOK, StepsInOrder, HostsInOrder, LoneRedeploy, FindsItsBuild, Lone, Active
<1> QED
  BY <1>1, <1>2, <1>3, <1>4

LEMMA RestartsKeeps == ASSUME HostIndInv, NEW i \in Instances, Restarts(i) PROVE HostIndInv'
<1> USE DEF HostIndInv, Restarts, InstanceRuns, vars, redeploy
<1>1. HostTypeOK'
  BY OperatorsAssumption, Fresh, Chmodded, StartsWhatIsThere DEF HostTypeOK, StepsInOrder, ScriptOver, Versions
<1>2. StepsInOrder'
  BY OperatorsAssumption DEF HostTypeOK, StepsInOrder, ScriptOver
<1>3. HostsInOrder'
  BY OperatorsAssumption, Fresh, Chmodded, StartsWhatIsThere DEF HostTypeOK, StepsInOrder, HostsInOrder, Live
<1>4. LoneRedeploy'
  BY OperatorsAssumption, Fresh, Chmodded, StartsWhatIsThere, OneFile, ExecutableOnes
     DEF HostTypeOK, StepsInOrder, HostsInOrder, LoneRedeploy, FindsItsBuild, Lone, Active
<1> QED
  BY <1>1, <1>2, <1>3, <1>4

-----------------------------------------------------------------------------
(* The commands on the instance *)

\* The commands of one redeploy concern no other one: either it is alone, or it
\* is not.
LEMMA LoneScript ==
    ASSUME HostIndInv, NEW r \in Operators, NEW to, script[r] \notin ScriptOver,
           UNCHANGED <<s3, step, overlapped>>, script' = [script EXCEPT ![r] = to],
           Lone(r) => FindsItsBuild(r)'
    PROVE  LoneRedeploy'
<1>1. Active(r)
  BY DEF Active
<1>2. \A q \in Operators : Active(q)' => Active(q)
  BY <1>1 DEF Active, HostIndInv, HostTypeOK
<1>3. \A q \in Operators \ {r} : ~Lone(q)
  BY <1>1 DEF HostIndInv, LoneRedeploy
<1>4. \A q \in Operators : Lone(q)' <=> Lone(q)
  BY DEF Lone
<1> QED
  BY <1>2, <1>3, <1>4 DEF HostIndInv, LoneRedeploy

LEMMA FetchKeeps == ASSUME HostIndInv, NEW r \in Operators, Fetch(r) PROVE HostIndInv'
<1> USE DEF HostIndInv, Fetch, ScriptGoes, InstanceRuns, vars, MayFetch
<1>1. HostTypeOK'
  <2>1. PICK v \in s3 : new' = [new EXCEPT ![onto[r]] = Downloaded(v)]
    OBVIOUS
  <2>2. onto[r] \in Instances /\ v \in Versions
    BY DEF StepsInOrder, HostTypeOK
  <2>3. new' \in [Instances -> AtMostOneFile]
    BY <2>1, <2>2, Fresh DEF HostTypeOK
  <2> QED
    BY <2>3 DEF HostTypeOK, ScriptOver
<1>2. StepsInOrder'
  BY OperatorsAssumption DEF HostTypeOK, StepsInOrder, ScriptOver
<1>3. HostsInOrder'
  BY OperatorsAssumption, Fresh, Chmodded, StartsWhatIsThere DEF HostTypeOK, StepsInOrder, HostsInOrder, Live
<1>4. LoneRedeploy'
  <2>1. onto[r] \in Instances /\ script[r] \notin ScriptOver /\ UNCHANGED <<s3, step, overlapped, boot, onto>>
    BY DEF StepsInOrder, ScriptOver
  <2>9. Lone(r) => FindsItsBuild(r)'
    <3> SUFFICES ASSUME Lone(r), FindsItsBuild(r)
                 PROVE  FindsItsBuild(r)'
      BY DEF LoneRedeploy
    <3>1. script'[r] = "fetched"
      BY DEF HostTypeOK
    <3> QED
      BY <2>1, <3>1 DEF FindsItsBuild, HostTypeOK, HostsInOrder, Lone
  <2> QED
    BY <2>1, <2>9, LoneScript
<1> QED
  BY <1>1, <1>2, <1>3, <1>4

LEMMA ChmodKeeps == ASSUME HostIndInv, NEW r \in Operators, Chmod(r) PROVE HostIndInv'
<1> USE DEF HostIndInv, Chmod, ScriptGoes, InstanceRuns, vars
<1>1. HostTypeOK'
  BY OperatorsAssumption, Fresh, Chmodded, StartsWhatIsThere DEF HostTypeOK, StepsInOrder, ScriptOver, Versions
<1>2. StepsInOrder'
  BY OperatorsAssumption DEF HostTypeOK, StepsInOrder, ScriptOver
<1>3. HostsInOrder'
  BY OperatorsAssumption, Fresh, Chmodded, StartsWhatIsThere DEF HostTypeOK, StepsInOrder, HostsInOrder, Live
<1>4. LoneRedeploy'
  <2>1. onto[r] \in Instances /\ script[r] \notin ScriptOver /\ UNCHANGED <<s3, step, overlapped, boot, onto>>
    BY DEF StepsInOrder, ScriptOver
  <2>9. Lone(r) => FindsItsBuild(r)'
    <3> SUFFICES ASSUME Lone(r), FindsItsBuild(r)
                 PROVE  FindsItsBuild(r)'
      BY DEF LoneRedeploy
    <3>1. script'[r] = "executable" /\ new'[onto[r]] = MadeExecutable(Downloaded(r))
      BY <2>1 DEF FindsItsBuild, HostTypeOK
    <3>2. r \in Versions
      BY DEF Versions
    <3>3. new'[onto[r]] = Executable(r)
      <4> HIDE DEF Chmod, HostIndInv
      <4> QED
        BY <3>1, <3>2, Fresh, Chmodded, OneFile
    <3> QED
      BY <2>1, <3>1, <3>3 DEF FindsItsBuild
  <2> QED
    BY <2>1, <2>9, LoneScript
<1> QED
  BY <1>1, <1>2, <1>3, <1>4

\* A lone redeploy puts its own build in place, executable.
LEMMA SwapKeeps == ASSUME HostIndInv, NEW r \in Operators, Swap(r) PROVE HostIndInv'
<1> USE DEF HostIndInv, Swap, ScriptGoes, InstanceRuns, vars
<1>1. HostTypeOK'
  <2>1. onto[r] \in Instances
    BY DEF StepsInOrder
  <2>2. new' \in [Instances -> AtMostOneFile] /\ bin' \in [Instances -> AtMostOneFile]
    BY <2>1 DEF HostTypeOK, AtMostOneFile
  <2> QED
    BY <2>2 DEF HostTypeOK, ScriptOver
<1>2. StepsInOrder'
  BY OperatorsAssumption DEF HostTypeOK, StepsInOrder, ScriptOver
<1>3. HostsInOrder'
  <2>1. onto[r] \in Instances /\ UNCHANGED <<instance, boot, overlapped>>
    BY DEF StepsInOrder
  <2>2. overlapped = {} => \A f \in new[onto[r]] : f.executable
    BY ExecutableOnes DEF LoneRedeploy, FindsItsBuild, Lone, Active, ScriptOver
  <2> QED
    BY <2>1, <2>2 DEF HostTypeOK, HostsInOrder, Live
<1>4. LoneRedeploy'
  <2>1. onto[r] \in Instances /\ script[r] \notin ScriptOver /\ UNCHANGED <<s3, step, overlapped, boot, onto>>
    BY DEF StepsInOrder, ScriptOver
  <2>9. Lone(r) => FindsItsBuild(r)'
    <3> SUFFICES ASSUME Lone(r), FindsItsBuild(r)
                 PROVE  FindsItsBuild(r)'
      BY DEF LoneRedeploy
    <3>1. script'[r] = "swapped"
      BY DEF HostTypeOK
    <3> QED
      BY <2>1, <3>1, ExecutableOnes DEF FindsItsBuild, HostTypeOK, HostsInOrder, Lone
  <2> QED
    BY <2>1, <2>9, LoneScript
<1> QED
  BY <1>1, <1>2, <1>3, <1>4

LEMMA RestartUnitKeeps == ASSUME HostIndInv, NEW r \in Operators, RestartUnit(r) PROVE HostIndInv'
<1> USE DEF HostIndInv, RestartUnit, ScriptGoes, InstanceRuns, vars
<1>1. HostTypeOK'
  BY OperatorsAssumption, Fresh, Chmodded, StartsWhatIsThere DEF HostTypeOK, StepsInOrder, ScriptOver, Versions
<1>2. StepsInOrder'
  BY OperatorsAssumption DEF HostTypeOK, StepsInOrder, ScriptOver
<1>3. HostsInOrder'
  BY OperatorsAssumption, Fresh, Chmodded, StartsWhatIsThere DEF HostTypeOK, StepsInOrder, HostsInOrder, Live
<1>4. LoneRedeploy'
  <2>1. onto[r] \in Instances /\ script[r] \notin ScriptOver /\ UNCHANGED <<s3, step, overlapped, boot, onto>>
    BY DEF StepsInOrder, ScriptOver
  <2>9. Lone(r) => FindsItsBuild(r)'
    <3> SUFFICES ASSUME Lone(r), FindsItsBuild(r)
                 PROVE  FindsItsBuild(r)'
      BY DEF LoneRedeploy
    <3>1. script'[r] = "restarted"
      BY DEF HostTypeOK
    <3> QED
      BY <2>1, <3>1, StartsWhatIsThere DEF FindsItsBuild, HostTypeOK, HostsInOrder, Lone
  <2> QED
    BY <2>1, <2>9, LoneScript
<1> QED
  BY <1>1, <1>2, <1>3, <1>4

LEMMA VerifyKeeps == ASSUME HostIndInv, NEW r \in Operators, Verify(r) PROVE HostIndInv'
<1> USE DEF HostIndInv, Verify, ScriptGoes, InstanceRuns, vars
<1>1. HostTypeOK'
  BY OperatorsAssumption, Fresh, Chmodded, StartsWhatIsThere DEF HostTypeOK, StepsInOrder, ScriptOver, Versions
<1>2. StepsInOrder'
  BY OperatorsAssumption DEF HostTypeOK, StepsInOrder, ScriptOver
<1>3. HostsInOrder'
  BY OperatorsAssumption, Fresh, Chmodded, StartsWhatIsThere DEF HostTypeOK, StepsInOrder, HostsInOrder, Live
<1>4. LoneRedeploy'
  <2>1. onto[r] \in Instances /\ script[r] \notin ScriptOver /\ UNCHANGED <<s3, step, overlapped, boot, onto>>
    BY DEF StepsInOrder, ScriptOver
  <2>9. Lone(r) => FindsItsBuild(r)'
    <3> SUFFICES ASSUME Lone(r), FindsItsBuild(r)
                 PROVE  FindsItsBuild(r)'
      BY DEF LoneRedeploy
    <3>1. script'[r] = "Success"
      BY DEF HostTypeOK
    <3> QED
      BY <2>1, <3>1 DEF FindsItsBuild, HostTypeOK, HostsInOrder, Lone
  <2> QED
    BY <2>1, <2>9, LoneScript
<1> QED
  BY <1>1, <1>2, <1>3, <1>4

LEMMA ScriptFailsKeeps == ASSUME HostIndInv, NEW r \in Operators, ScriptFails(r) PROVE HostIndInv'
<1> USE DEF HostIndInv, ScriptFails, vars, host
<1>1. HostTypeOK'
  BY OperatorsAssumption, Fresh, Chmodded, StartsWhatIsThere DEF HostTypeOK, StepsInOrder, ScriptOver, Versions
<1>2. StepsInOrder'
  BY OperatorsAssumption DEF HostTypeOK, StepsInOrder, ScriptOver
<1>3. HostsInOrder'
  BY OperatorsAssumption, Fresh, Chmodded, StartsWhatIsThere DEF HostTypeOK, StepsInOrder, HostsInOrder, Live
<1>4. LoneRedeploy'
  BY OperatorsAssumption, Fresh, Chmodded, StartsWhatIsThere, OneFile, ExecutableOnes
     DEF HostTypeOK, StepsInOrder, HostsInOrder, LoneRedeploy, FindsItsBuild, Lone, Active
<1> QED
  BY <1>1, <1>2, <1>3, <1>4

-----------------------------------------------------------------------------
(* The operators *)

LEMMA FindBastionKeeps == ASSUME HostIndInv, NEW r \in Operators, FindBastion(r) PROVE HostIndInv'
<1> USE DEF HostIndInv, FindBastion, Turns, vars, host, Found, Live
<1>1. HostTypeOK'
  BY OperatorsAssumption, Fresh, Chmodded, StartsWhatIsThere DEF HostTypeOK, StepsInOrder, ScriptOver, Versions
<1>2. StepsInOrder'
  BY OperatorsAssumption DEF HostTypeOK, StepsInOrder, ScriptOver
<1>3. HostsInOrder'
  BY OperatorsAssumption, Fresh, Chmodded, StartsWhatIsThere DEF HostTypeOK, StepsInOrder, HostsInOrder, Live
<1>4. LoneRedeploy'
  <2>1. ~Active(r) /\ ~Lone(r) /\ \A q \in Operators : Active(q)' <=> Active(q)
    BY DEF HostTypeOK, StepsInOrder, Active, ScriptOver, Lone
  <2>2. \A q \in Operators \ {r} : FindsItsBuild(q)' <=> FindsItsBuild(q)
    BY DEF FindsItsBuild, HostTypeOK
  <2> QED
    BY <2>1, <2>2 DEF LoneRedeploy, Lone
<1> QED
  BY <1>1, <1>2, <1>3, <1>4

\* Whoever was under way is overlapped now, and so is the one that uploads.
LEMMA UploadKeeps == ASSUME HostIndInv, NEW r \in Operators, Upload(r) PROVE HostIndInv'
<1> USE DEF HostIndInv, Upload, Turns, vars, host
<1>1. HostTypeOK'
  BY OperatorsAssumption, Fresh, Chmodded, StartsWhatIsThere DEF HostTypeOK, StepsInOrder, ScriptOver, Versions
<1>2. StepsInOrder'
  BY OperatorsAssumption DEF HostTypeOK, StepsInOrder, ScriptOver
<1>3. HostsInOrder'
  BY OperatorsAssumption, Fresh, Chmodded, StartsWhatIsThere DEF HostTypeOK, StepsInOrder, HostsInOrder, Live
<1>4. LoneRedeploy'
  <2>1. script[r] = "none" /\ s3' = {r} /\ script' = script
    BY DEF StepsInOrder
  <2>2. \A q \in Operators \ {r} : ~Lone(q)' /\ (Active(q)' <=> Active(q))
    BY DEF Lone, Active, HostTypeOK
  <2>3. \A q \in Operators \ {r} : q \notin overlapped' => ~Active(q)
    OBVIOUS
  <2>4. r \notin overlapped' => \A q \in Operators \ {r} : ~Active(q)
    OBVIOUS
  <2>5. FindsItsBuild(r)'
    BY <2>1 DEF FindsItsBuild
  <2> QED
    BY <2>1, <2>2, <2>3, <2>4, <2>5 DEF LoneRedeploy, Lone
<1> QED
  BY <1>1, <1>2, <1>3, <1>4

LEMMA SendKeeps == ASSUME HostIndInv, NEW r \in Operators, Send(r) PROVE HostIndInv'
<1> USE DEF HostIndInv, Send, Turns, vars, host
<1>1. HostTypeOK'
  BY OperatorsAssumption, Fresh, Chmodded, StartsWhatIsThere DEF HostTypeOK, StepsInOrder, ScriptOver, Versions
<1>2. StepsInOrder'
  BY OperatorsAssumption DEF HostTypeOK, StepsInOrder, ScriptOver
<1>3. HostsInOrder'
  BY OperatorsAssumption, Fresh, Chmodded, StartsWhatIsThere DEF HostTypeOK, StepsInOrder, HostsInOrder, Live
<1>4. LoneRedeploy'
  BY OperatorsAssumption, Fresh, Chmodded, StartsWhatIsThere, OneFile, ExecutableOnes
     DEF HostTypeOK, StepsInOrder, HostsInOrder, LoneRedeploy, FindsItsBuild, Lone, Active
<1> QED
  BY <1>1, <1>2, <1>3, <1>4

LEMMA GiveUpKeeps == ASSUME HostIndInv, NEW r \in Operators, GiveUp(r) PROVE HostIndInv'
<1> USE DEF HostIndInv, GiveUp, Turns, vars, host
<1>1. HostTypeOK'
  BY OperatorsAssumption, Fresh, Chmodded, StartsWhatIsThere DEF HostTypeOK, StepsInOrder, ScriptOver, Versions
<1>2. StepsInOrder'
  BY OperatorsAssumption DEF HostTypeOK, StepsInOrder, ScriptOver
<1>3. HostsInOrder'
  BY OperatorsAssumption, Fresh, Chmodded, StartsWhatIsThere DEF HostTypeOK, StepsInOrder, HostsInOrder, Live
<1>4. LoneRedeploy'
  BY OperatorsAssumption, Fresh, Chmodded, StartsWhatIsThere, OneFile, ExecutableOnes
     DEF HostTypeOK, StepsInOrder, HostsInOrder, LoneRedeploy, FindsItsBuild, Lone, Active
<1> QED
  BY <1>1, <1>2, <1>3, <1>4

LEMMA PollEndsKeeps == ASSUME HostIndInv, NEW r \in Operators, PollEnds(r) PROVE HostIndInv'
<1> USE DEF HostIndInv, PollEnds, Turns, vars, host
<1>1. HostTypeOK'
  BY OperatorsAssumption, Fresh, Chmodded, StartsWhatIsThere DEF HostTypeOK, StepsInOrder, ScriptOver, Versions
<1>2. StepsInOrder'
  BY OperatorsAssumption DEF HostTypeOK, StepsInOrder, ScriptOver
<1>3. HostsInOrder'
  BY OperatorsAssumption, Fresh, Chmodded, StartsWhatIsThere DEF HostTypeOK, StepsInOrder, HostsInOrder, Live
<1>4. LoneRedeploy'
  BY OperatorsAssumption, Fresh, Chmodded, StartsWhatIsThere, OneFile, ExecutableOnes
     DEF HostTypeOK, StepsInOrder, HostsInOrder, LoneRedeploy, FindsItsBuild, Lone, Active
<1> QED
  BY <1>1, <1>2, <1>3, <1>4

LEMMA PollFindsItStuckKeeps == ASSUME HostIndInv, NEW r \in Operators, PollFindsItStuck(r) PROVE HostIndInv'
<1> USE DEF HostIndInv, PollFindsItStuck, Turns, vars, host
<1>1. HostTypeOK'
  BY OperatorsAssumption, Fresh, Chmodded, StartsWhatIsThere DEF HostTypeOK, StepsInOrder, ScriptOver, Versions
<1>2. StepsInOrder'
  BY OperatorsAssumption DEF HostTypeOK, StepsInOrder, ScriptOver
<1>3. HostsInOrder'
  BY OperatorsAssumption, Fresh, Chmodded, StartsWhatIsThere DEF HostTypeOK, StepsInOrder, HostsInOrder, Live
<1>4. LoneRedeploy'
  BY OperatorsAssumption, Fresh, Chmodded, StartsWhatIsThere, OneFile, ExecutableOnes
     DEF HostTypeOK, StepsInOrder, HostsInOrder, LoneRedeploy, FindsItsBuild, Lone, Active
<1> QED
  BY <1>1, <1>2, <1>3, <1>4

LEMMA LosesAccessKeeps == ASSUME HostIndInv, NEW r \in Operators, LosesAccess(r) PROVE HostIndInv'
<1> USE DEF HostIndInv, LosesAccess, Turns, vars, host
<1>1. HostTypeOK'
  BY OperatorsAssumption, Fresh, Chmodded, StartsWhatIsThere DEF HostTypeOK, StepsInOrder, ScriptOver, Versions
<1>2. StepsInOrder'
  BY OperatorsAssumption DEF HostTypeOK, StepsInOrder, ScriptOver
<1>3. HostsInOrder'
  BY OperatorsAssumption, Fresh, Chmodded, StartsWhatIsThere DEF HostTypeOK, StepsInOrder, HostsInOrder, Live
<1>4. LoneRedeploy'
  BY OperatorsAssumption, Fresh, Chmodded, StartsWhatIsThere, OneFile, ExecutableOnes
     DEF HostTypeOK, StepsInOrder, HostsInOrder, LoneRedeploy, FindsItsBuild, Lone, Active
<1> QED
  BY <1>1, <1>2, <1>3, <1>4

LEMMA PollErrorKeeps == ASSUME HostIndInv, NEW r \in Operators, PollError(r) PROVE HostIndInv'
<1> USE DEF HostIndInv, PollError, Turns, vars, host
<1>1. HostTypeOK'
  BY OperatorsAssumption, Fresh, Chmodded, StartsWhatIsThere DEF HostTypeOK, StepsInOrder, ScriptOver, Versions
<1>2. StepsInOrder'
  BY OperatorsAssumption DEF HostTypeOK, StepsInOrder, ScriptOver
<1>3. HostsInOrder'
  BY OperatorsAssumption, Fresh, Chmodded, StartsWhatIsThere DEF HostTypeOK, StepsInOrder, HostsInOrder, Live
<1>4. LoneRedeploy'
  BY OperatorsAssumption, Fresh, Chmodded, StartsWhatIsThere, OneFile, ExecutableOnes
     DEF HostTypeOK, StepsInOrder, HostsInOrder, LoneRedeploy, FindsItsBuild, Lone, Active
<1> QED
  BY <1>1, <1>2, <1>3, <1>4

-----------------------------------------------------------------------------
(* Instances that come and go *)

\* A command or EC2 takes an instance one state further: it is launched when it
\* is not there, and shuts down before it is gone.
LEMMA InstanceSteps ==
    ASSUME IndInv, Next, NEW i \in Instances
    PROVE  \/ instance'[i] = instance[i]
           \/ instance[i] = "none" /\ instance'[i] = "pending"
           \/ i \in Live /\ instance'[i] = "shutting-down"
           \/ instance[i] = "pending" /\ instance'[i] = "running"
           \/ instance[i] = "shutting-down" /\ instance'[i] = "none"
<1>1. instance \in [Instances -> {"none", "pending", "running", "shutting-down"}]
  BY DEF IndInv, TypeOK
<1>2. CASE Begin \/ Fail \/ DoctorStep \/ \E g \in EndpointGroups : FollowAdvice(g) \/ Revoke(g)
  BY <1>2 DEF Begin, Fail, DoctorStep, FindForDoctor, CheckAgent, CheckEndpoints, FollowAdvice, Revoke, aws
<1>3. CASE InitStep
  <2>1. CASE Launch
    BY <1>1, <2>1 DEF Launch, Existing
  <2>2. CASE InitStep /\ ~Launch
    BY <2>2 DEF InitStep, CheckVpc, FindForInit, EnsureRole, AttachPolicy, EnsureProfile, AddRole,
                EnsureGroup, Authorize, WaitUntilRunning, PostFlight, aws
  <2> QED
    BY <1>3, <2>1, <2>2
<1>4. CASE DestroyStep
  <2>1. CASE Terminate
    <3>1. target \in Live
      BY <2>1 DEF Terminate, At, IndInv, DestroyProgress
    <3> QED
      BY <1>1, <2>1, <3>1 DEF Terminate
  <2>2. CASE DestroyStep /\ ~Terminate
    BY <2>2 DEF DestroyStep, FindForDestroy, DeleteGroup, Unbind, DeleteProfile, Detach, DeleteRole, aws
  <2> QED
    BY <1>4, <2>1, <2>2
<1>5. CASE \E j \in Instances : Boots(j) \/ Goes(j)
  BY <1>1, <1>5 DEF Boots, Goes
<1> QED
  BY <1>2, <1>3, <1>4, <1>5 DEF Next

\* An instance that goes down fails the commands it runs, and its disk is gone.
LEMMA ProvisionKeeps == ASSUME HostIndInv, IndInv, Provision PROVE HostIndInv'
<1> USE DEF HostIndInv, Provision
<1>1. \A i \in Instances : \/ i \in Live' \/ i \notin Live \/ i \in Stopped
  BY InstanceSteps DEF Live, Stopped
<1>2. \A i \in Launched : i \in Live' /\ i \notin Live /\ i \in Instances /\ i \notin Stopped
  BY DEF Live, Launched, Stopped
<1>3. \A i \in Instances : i \in Live' => i \in Live \/ i \in Launched
  BY InstanceSteps DEF Live, Launched
<1>4. Stopped \subseteq Instances
  BY DEF Stopped, Live
<1>5. \A r \in Operators : \/ script'[r] = script[r] /\ (script[r] \in ScriptOver \/ onto[r] \notin Stopped)
                           \/ script'[r] = "Failed" /\ script[r] \notin ScriptOver
  BY DEF HostTypeOK
<1>6. HostTypeOK'
  <2>1. /\ new' \in [Instances -> AtMostOneFile] /\ bin' \in [Instances -> AtMostOneFile]
        /\ server' \in [Instances -> Versions \cup {Down}]
        /\ boot' \in [Instances -> {"off", "start", "fetched", "executable", "done", "aborted"}]
    BY DEF HostTypeOK, AtMostOneFile
  <2>2. script' \in [Operators -> ScriptOver \cup {"sent", "fetched", "executable", "swapped", "restarted"}]
    BY DEF HostTypeOK, ScriptOver
  <2>3. \A i \in Instances : server'[i] # Down => boot'[i] = "done"
    BY <1>2 DEF HostTypeOK, HostsInOrder
  <2> QED
    BY <2>1, <2>2, <2>3 DEF HostTypeOK
<1>7. StepsInOrder'
  BY <1>5 DEF StepsInOrder, ScriptOver
<1>8. HostsInOrder'
  BY <1>1, <1>2 DEF HostsInOrder
<1>9. LoneRedeploy'
  <2>1. \A r \in Operators : (Active(r)' => Active(r)) /\ (Lone(r)' <=> Lone(r))
    BY <1>5 DEF Active, Lone, ScriptOver
  <2>2. ASSUME NEW r \in Operators, FindsItsBuild(r)
        PROVE  FindsItsBuild(r)'
    <3>1. CASE onto[r] \in Stopped
      <4>1. /\ bin'[onto[r]] = {} /\ boot'[onto[r]] = "off"
            /\ script'[r] \in ScriptOver
        BY <1>2, <1>4, <1>5, <3>1 DEF ScriptOver
      <4> QED
        BY <4>1 DEF FindsItsBuild, ScriptOver
    <3>2. CASE onto[r] \notin Stopped /\ script[r] # "none"
      <4>1. onto[r] \in Instances
        BY <3>2 DEF StepsInOrder
      <4>2. /\ bin'[onto[r]] = bin[onto[r]] /\ new'[onto[r]] = new[onto[r]]
            /\ server'[onto[r]] = server[onto[r]] /\ script'[r] = script[r]
            /\ boot'[onto[r]] \in {boot[onto[r]], "start"}
        BY <3>2, <4>1, <1>5
      <4>3. CASE boot'[onto[r]] = boot[onto[r]]
        BY <2>2, <4>2, <4>3 DEF FindsItsBuild
      <4>4. CASE boot'[onto[r]] = "start"
        BY <2>2, <4>2, <4>4 DEF FindsItsBuild
      <4> QED
        BY <4>2, <4>3, <4>4
    <3>3. CASE script[r] = "none"
      BY <1>5, <3>3 DEF FindsItsBuild, ScriptOver
    <3> QED
      BY <3>1, <3>2, <3>3
  <2> QED
    BY <2>1, <2>2 DEF LoneRedeploy, Lone
<1> QED
  BY <1>6, <1>7, <1>8, <1>9

-----------------------------------------------------------------------------
(* What holds in every state *)

\* Of the account, Redeploy does what Provisioner does, and nothing else.
THEOREM CloudImplementsProvisioner == CloudSpec => Spec
<1>1. CloudInit => Init
  BY DEF CloudInit
<1>2. [CloudNext]_allVars => [Next]_vars
  <2>1. Provision => Next
    BY DEF Provision
  <2>2. ASSUME NEW i \in Instances,
               BootFetches(i) \/ BootMakesExecutable(i) \/ BootStarts(i) \/ BootAborts(i) \/ Restarts(i)
        PROVE  UNCHANGED vars
    BY <2>2 DEF BootFetches, BootMakesExecutable, BootStarts, BootAborts, Restarts, BootGoes
  <2>3. ASSUME NEW r \in Operators, ScriptStep(r)
        PROVE  UNCHANGED vars
    BY <2>3 DEF ScriptStep, Fetch, Chmod, Swap, RestartUnit, Verify, ScriptFails, ScriptGoes
  <2>4. ASSUME NEW r \in Operators, FindBastion(r) \/ OperatorStep(r) \/ LosesAccess(r)
        PROVE  UNCHANGED vars
    BY <2>4 DEF FindBastion, OperatorStep, LosesAccess, Upload, Send, GiveUp, PollEnds,
                PollFindsItStuck, PollError, Turns
  <2>5. UNCHANGED allVars => UNCHANGED vars
    BY DEF allVars, vars
  <2> QED
    BY <2>1, <2>2, <2>3, <2>4, <2>5 DEF CloudNext
<1> QED
  BY <1>1, <1>2, PTL DEF CloudSpec, Spec

LEMMA HostStepPreserves == HostIndInv /\ IndInv /\ [CloudNext]_allVars => HostIndInv'
<1> SUFFICES ASSUME HostIndInv, IndInv, [CloudNext]_allVars
             PROVE  HostIndInv'
  OBVIOUS
<1>1. CASE Provision
  BY <1>1, ProvisionKeeps
<1>2. ASSUME NEW i \in Instances,
             BootFetches(i) \/ BootMakesExecutable(i) \/ BootStarts(i) \/ BootAborts(i) \/ Restarts(i)
      PROVE  HostIndInv'
  BY <1>2, BootFetchesKeeps, BootMakesExecutableKeeps, BootStartsKeeps, BootAbortsKeeps, RestartsKeeps
<1>3. ASSUME NEW r \in Operators, ScriptStep(r)
      PROVE  HostIndInv'
  BY <1>3, FetchKeeps, ChmodKeeps, SwapKeeps, RestartUnitKeeps, VerifyKeeps, ScriptFailsKeeps
     DEF ScriptStep
<1>4. ASSUME NEW r \in Operators, FindBastion(r) \/ OperatorStep(r) \/ LosesAccess(r)
      PROVE  HostIndInv'
  BY <1>4, FindBastionKeeps, UploadKeeps, SendKeeps, GiveUpKeeps, PollEndsKeeps,
     PollFindsItStuckKeeps, LosesAccessKeeps, PollErrorKeeps
     DEF OperatorStep
<1>5. CASE UNCHANGED allVars
  BY <1>5 DEF allVars, HostIndInv, HostTypeOK, StepsInOrder, HostsInOrder, LoneRedeploy,
              FindsItsBuild, Lone, Active, Live
<1> QED
  BY <1>1, <1>2, <1>3, <1>4, <1>5 DEF CloudNext

\* The inductive invariant: whatever becomes of the redeploys, the boot scripts
\* and the commands that provision meanwhile.
THEOREM HostInvariance == CloudSpec => []HostIndInv
<1>1. CloudSpec => []IndInv
  BY CloudImplementsProvisioner, Invariance
<1> QED
  BY HostInitEstablishes, HostStepPreserves, <1>1, PTL DEF CloudSpec

\* The variables of Redeploy keep their types, and only a unit's server runs.
THEOREM HostTypeCorrect == CloudSpec => []HostTypeOK
<1>1. HostIndInv => HostTypeOK
  BY DEF HostIndInv
<1> QED
  BY HostInvariance, <1>1, PTL

\* main.rs bastion_redeploy: a redeploy that reports success, and overlapped no
\* other, has its build installed, executable and running on the instance it
\* found, as long as that is the last one uploaded; after a destroy and an init
\* as well.
THEOREM ReportedRedeploysAreInstalled == CloudSpec => []RedeployInstalls
<1>1. HostIndInv => RedeployInstalls
  <2> SUFFICES ASSUME HostIndInv, NEW r \in Operators \ overlapped,
                      step[r] = "ok", s3 = {r}, boot[onto[r]] = "done", InstanceRuns(onto[r])
               PROVE  server[onto[r]] = r /\ bin[onto[r]] = Executable(r)
    BY DEF RedeployInstalls, Executable
  <2>1. script[r] = "Success" /\ Lone(r)
    BY DEF HostIndInv, StepsInOrder, Lone
  <2>2. FindsItsBuild(r)
    BY <2>1 DEF HostIndInv, LoneRedeploy
  <2> QED
    BY <2>1, <2>2 DEF FindsItsBuild
<1> QED
  BY HostInvariance, <1>1, PTL

\* bastion_provisioner.rs redeploy_script: as long as redeploys come one after
\* the other, one that is cut off anywhere leaves a binary that can be started.
THEOREM BinariesAreStartable == CloudSpec => []AlwaysStartable
<1>1. HostIndInv => AlwaysStartable
  BY DEF HostIndInv, HostsInOrder, AlwaysStartable
<1> QED
  BY HostInvariance, <1>1, PTL
=============================================================================
