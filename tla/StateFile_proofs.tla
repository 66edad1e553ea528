-------------------------- MODULE StateFile_proofs --------------------------
(***************************************************************************)
(* Proofs about StateFile, for any number of commands and sessions, and    *)
(* wherever commands die.                                                  *)
(***************************************************************************)
EXTENDS StateFile, TLAPS

-----------------------------------------------------------------------------
(* The operators *)

\* A command's change of a set of sessions is a set of sessions.
LEMMA AppliedType ==
    ASSUME NEW e \in Effects, NEW sessions \in SUBSET Sessions
    PROVE  Applied(e, sessions) \in SUBSET Sessions
  BY EffectsAssumption DEF Applied

\* A text written into a file that was truncated is all there is in it.
LEMMA OverwrittenEmpty ==
    ASSUME NEW new \in SUBSET Sessions
    PROVE  Overwritten({}, new) = {new}
<1>1. Garbled # {}
  BY GarbledAssumption
<1> QED
  BY <1>1 DEF Overwritten, Shorter

\* Whatever a text is written over, the file holds that text or garbage.
LEMMA OverwrittenType ==
    ASSUME NEW old, NEW new \in SUBSET Sessions
    PROVE  Overwritten(old, new) \subseteq Contents
<1> DEFINE emptyOrShort == old # Garbled /\ (old = {} \/ Shorter(old, new))
           long == old # Garbled /\ old # {} /\ Shorter(new, old)
<1>1. CASE old = Garbled
  BY <1>1 DEF Overwritten, Contents
<1>2. CASE emptyOrShort
  <2>1. ~(old = Garbled)
    BY <1>2
  <2>2. ~long
    BY <1>2 DEF Shorter
  <2> QED
    BY <1>2, <2>1, <2>2 DEF Overwritten, Contents
<1>3. CASE old # Garbled /\ ~emptyOrShort
  BY <1>3 DEF Overwritten, Contents
<1> QED
  BY <1>1, <1>2, <1>3

-----------------------------------------------------------------------------
(* The initial states *)

LEMMA InitEstablishes == Init => IndInv
  BY NamesAssumption, EffectsAssumption
     DEF Init, IndInv, TypeOK, NamesApart, NotMadeYet, LoneCommand, CopyIsMeant, FileIsMeant,
         Running, Files, Contents

-----------------------------------------------------------------------------
(* The actions *)

\* A command that joins others marks them all; one that is alone has read what
\* the commands before it meant.
LEMMA LoadKeeps ==
    ASSUME IndInv, NEW c \in Commands, Load(c)
    PROVE  IndInv'
<1> USE DEF IndInv, Load, Goto
<1>1. data[names["state"]] \in SUBSET Sessions
  BY DEF TypeOK, Files, Contents
<1>2. TypeOK'
  BY <1>1, AppliedType DEF TypeOK, Others
<1>3. NamesApart' /\ NotMadeYet'
  BY DEF TypeOK, NamesApart, NotMadeYet
<1>4. LoneCommand'
  <2> SUFFICES ASSUME NEW d \in Commands, d \notin overlapped'
               PROVE  /\ Running(d)' => Others(d)' = {}
                      /\ pc'[d] \in {"opened", "written"} => fd'[d] = names'["tmp"] /\ fd'[d] # NoFile
                      /\ pc'[d] = "opened" => data'[fd'[d]] = {}
                      /\ pc'[d] = "written" => data'[fd'[d]] = copy'[d]
    BY DEF LoneCommand
  <2>1. CASE d = c
    BY <2>1 DEF TypeOK, Others, Running
  <2>2. CASE d # c
    BY <2>2 DEF TypeOK, LoneCommand, Others, Running
  <2> QED
    BY <2>1, <2>2
<1>5. CopyIsMeant' /\ FileIsMeant'
  BY DEF TypeOK, CopyIsMeant, FileIsMeant, Others, Running
<1> QED
  BY <1>2, <1>3, <1>4, <1>5

LEMMA LoadFailsKeeps ==
    ASSUME IndInv, NEW c \in Commands, LoadFails(c)
    PROVE  IndInv'
  BY DEF IndInv, LoadFails, Goto, TypeOK, NamesApart, NotMadeYet, LoneCommand, CopyIsMeant,
         FileIsMeant, Running, Others

\* The file opened is not state.json: it was the temporary one before, or is
\* made now.
LEMMA OpenTmpKeeps ==
    ASSUME IndInv, NEW c \in Commands, OpenTmp(c)
    PROVE  IndInv'
<1> DEFINE file == IF names["tmp"] = NoFile THEN c ELSE names["tmp"]
<1> USE DEF IndInv, OpenTmp, Goto
<1>1. /\ file \in Files /\ file # NoFile /\ file # names["state"]
      /\ names' = [names EXCEPT !["tmp"] = file]
      /\ fd' = [fd EXCEPT ![c] = file]
      /\ data' = [data EXCEPT ![file] = {}]
  BY NamesAssumption DEF TypeOK, Files, NamesApart, NotMadeYet
<1> HIDE DEF file
<1>2. TypeOK'
  BY <1>1 DEF TypeOK, Contents
<1>3. NamesApart' /\ FileIsMeant'
  BY <1>1 DEF TypeOK, NamesApart, FileIsMeant
<1>4. NotMadeYet'
  BY <1>1, NamesAssumption DEF TypeOK, NotMadeYet, file
<1>5. LoneCommand'
  <2> SUFFICES ASSUME NEW d \in Commands, d \notin overlapped'
               PROVE  /\ Running(d)' => Others(d)' = {}
                      /\ pc'[d] \in {"opened", "written"} => fd'[d] = names'["tmp"] /\ fd'[d] # NoFile
                      /\ pc'[d] = "opened" => data'[fd'[d]] = {}
                      /\ pc'[d] = "written" => data'[fd'[d]] = copy'[d]
    BY DEF LoneCommand
  <2>1. CASE d = c
    BY <1>1, <2>1 DEF TypeOK, LoneCommand, Others, Running
  <2>2. CASE d # c
    BY <1>1, <2>2 DEF TypeOK, LoneCommand, Others, Running
  <2> QED
    BY <2>1, <2>2
<1>6. CopyIsMeant'
  BY DEF TypeOK, CopyIsMeant, Running
<1> QED
  BY <1>2, <1>3, <1>4, <1>5, <1>6

LEMMA FillKeeps ==
    ASSUME IndInv, NEW c \in Commands, Fill(c)
    PROVE  IndInv'
<1> USE DEF IndInv, Fill, Goto
<1>1. PICK text \in Overwritten(data[fd[c]], copy[c]) : data' = [data EXCEPT ![fd[c]] = text]
  OBVIOUS
<1>2. text \in Contents
  BY <1>1, OverwrittenType DEF TypeOK
<1>3. c \notin overlapped =>
        /\ Others(c) = {} /\ fd[c] = names["tmp"] /\ fd[c] \in Files /\ text = copy[c]
  <2> SUFFICES ASSUME c \notin overlapped
               PROVE  /\ Others(c) = {} /\ fd[c] = names["tmp"] /\ fd[c] \in Files
                      /\ text = copy[c]
    OBVIOUS
  <2>1. Others(c) = {} /\ fd[c] = names["tmp"] /\ fd[c] # NoFile /\ data[fd[c]] = {}
    BY DEF LoneCommand, Running
  <2>2. copy[c] \in SUBSET Sessions /\ fd[c] \in Files
    BY <2>1 DEF TypeOK
  <2>3. text = copy[c]
    BY <1>1, <2>1, <2>2, OverwrittenEmpty
  <2> QED
    BY <2>1, <2>2, <2>3
<1>4. TypeOK'
  BY <1>1, <1>2 DEF TypeOK
<1>5. NamesApart' /\ NotMadeYet' /\ CopyIsMeant' /\ FileIsMeant'
  BY <1>1, <1>3 DEF TypeOK, NamesApart, NotMadeYet, CopyIsMeant, FileIsMeant, Running
<1>6. LoneCommand'
  <2> SUFFICES ASSUME NEW d \in Commands, d \notin overlapped'
               PROVE  /\ Running(d)' => Others(d)' = {}
                      /\ pc'[d] \in {"opened", "written"} => fd'[d] = names'["tmp"] /\ fd'[d] # NoFile
                      /\ pc'[d] = "opened" => data'[fd'[d]] = {}
                      /\ pc'[d] = "written" => data'[fd'[d]] = copy'[d]
    BY DEF LoneCommand
  <2>1. CASE d = c
    BY <1>1, <1>3, <2>1 DEF TypeOK, LoneCommand, Others, Running
  <2>2. CASE d # c
    BY <1>1, <2>2 DEF TypeOK, LoneCommand, Others, Running
  <2> QED
    BY <2>1, <2>2
<1> QED
  BY <1>4, <1>5, <1>6

\* The temporary file of a command that was alone holds what it meant.
LEMMA RenameKeeps ==
    ASSUME IndInv, NEW c \in Commands, Rename(c)
    PROVE  IndInv'
<1> USE DEF IndInv, Rename, Goto
<1>1. TypeOK'
  BY AppliedType DEF TypeOK
<1>2. NamesApart' /\ NotMadeYet'
  BY NamesAssumption DEF TypeOK, NamesApart, NotMadeYet
<1>3. LoneCommand'
  BY DEF TypeOK, LoneCommand, Others, Running
<1>4. overlapped = {} => Others(c) = {} /\ data[names["tmp"]] = Applied(effect[c], meant)
  BY DEF TypeOK, LoneCommand, CopyIsMeant, Running
<1>5. CopyIsMeant' /\ FileIsMeant'
  BY <1>4 DEF TypeOK, CopyIsMeant, FileIsMeant, Others, Running
<1> QED
  BY <1>1, <1>2, <1>3, <1>5

LEMMA RenameFailsKeeps ==
    ASSUME IndInv, NEW c \in Commands, RenameFails(c)
    PROVE  IndInv'
  BY DEF IndInv, RenameFails, Goto, TypeOK, NamesApart, NotMadeYet, LoneCommand, CopyIsMeant,
         FileIsMeant, Running, Others

\* A write cut short is one into the temporary file.
LEMMA DieKeeps ==
    ASSUME IndInv, NEW c \in Commands, Die(c)
    PROVE  IndInv'
<1> USE DEF IndInv, Die, Goto
<1>1. TypeOK'
  BY DEF TypeOK, Contents
<1>2. NamesApart' /\ NotMadeYet' /\ CopyIsMeant'
  BY DEF TypeOK, NamesApart, NotMadeYet, CopyIsMeant, Running
<1>3. FileIsMeant'
  BY DEF TypeOK, NamesApart, LoneCommand, FileIsMeant
<1>4. LoneCommand'
  BY DEF TypeOK, LoneCommand, Others, Running
<1> QED
  BY <1>1, <1>2, <1>3, <1>4

LEMMA StepPreserves == IndInv /\ [Next]_vars => IndInv'
<1> SUFFICES ASSUME IndInv, [Next]_vars
             PROVE  IndInv'
  OBVIOUS
<1>1. ASSUME NEW c \in Commands, \/ Load(c) \/ LoadFails(c) \/ OpenTmp(c) \/ Fill(c)
                                 \/ Rename(c) \/ RenameFails(c) \/ Die(c)
      PROVE  IndInv'
  BY <1>1, LoadKeeps, LoadFailsKeeps, OpenTmpKeeps, FillKeeps, RenameKeeps, RenameFailsKeeps,
     DieKeeps
<1>2. CASE Finished \/ UNCHANGED vars
  BY <1>2 DEF Finished, vars, IndInv, TypeOK, NamesApart, NotMadeYet, LoneCommand, CopyIsMeant,
              FileIsMeant, Running, Others
<1> QED
  BY <1>1, <1>2 DEF Next

-----------------------------------------------------------------------------
(* The theorems *)

\* state.json and state.json.tmp never stand for one file, a command that
\* overlaps no other has the temporary file to itself, and what it is about to
\* rename is what it was to save (State::save, record_session, forget_sessions).
THEOREM Invariance == Spec => []IndInv
  BY InitEstablishes, StepPreserves, PTL DEF Spec

\* Every variable keeps its type, in particular state.json always exists and
\* holds sessions or garbage (State::save, State::load).
THEOREM TypeCorrect == Spec => []TypeOK
<1>1. IndInv => TypeOK
  BY DEF IndInv
<1> QED
  BY <1>1, Invariance, PTL

\* However many commands run one after the other, and wherever any of them
\* dies, state.json holds what those that returned Ok meant (State::save writes
\* state.json.tmp and renames it).
THEOREM CrashesKeepTheFile == Spec => []FileIsMeant
<1>1. IndInv => FileIsMeant
  BY DEF IndInv
<1> QED
  BY <1>1, Invariance, PTL

\* A command that overlaps no other saves exactly what it loaded and changed,
\* whatever earlier commands left in the temporary file (State::save).
THEOREM LoneSavesAreExact == Spec => LoneSaveIsExact
<1> DEFINE Exact ==
      \A c \in Commands : pc[c] = "written" /\ pc'[c] = "ok" /\ c \notin overlapped =>
                              data'[names'["state"]] = copy[c]
<1>1. IndInv /\ [Next]_vars => [Exact]_vars
  <2> SUFFICES ASSUME IndInv, Next, NEW c \in Commands,
                      pc[c] = "written", pc'[c] = "ok", c \notin overlapped
               PROVE  data'[names'["state"]] = copy[c]
    OBVIOUS
  <2>1. Rename(c)
    BY DEF Next, Finished, vars, Load, LoadFails, OpenTmp, Fill, Rename, RenameFails, Die, Goto,
           IndInv, TypeOK
  <2> QED
    BY <2>1 DEF Rename, IndInv, TypeOK, LoneCommand
<1> QED
  BY <1>1, Invariance, PTL DEF Spec, LoneSaveIsExact
=============================================================================
