------------------------------ MODULE StateFile ----------------------------
(***************************************************************************)
(* ~/.ephemwork/state.json and the commands that rewrite it (src/state.rs, *)
(* record_session and forget_sessions of src/commands.rs).  Every command  *)
(* loads the file, changes its copy, writes state.json.tmp and renames it  *)
(* over the file.  There is no lock, and every command uses the same       *)
(* temporary name, so the model keeps names and the files they name apart: *)
(* a file descriptor outlives the name it was opened by.                   *)
(***************************************************************************)
CONSTANTS Commands,  \* processes that rewrite the file, each once
          Sessions,  \* the (user, service) pairs they record or forget
          Original,  \* the file of the first save, before any command of this run
          NoFile,
          Garbled,   \* text that does not parse
          Effects    \* the possible effects of a command: see Recording, Forgetting

ASSUME NamesAssumption == Original \notin Commands /\ NoFile \notin Commands \cup {Original}
ASSUME GarbledAssumption == \A sessions \in SUBSET Sessions : Garbled # sessions
ASSUME EffectsAssumption == Effects \subseteq [adds : SUBSET Sessions, drops : SUBSET Sessions]

VARIABLES names,    \* the file each of the two names stands for
          data,     \* what each file holds: sessions, none when truncated, or garbage
          pc,       \* where each command is
          effect,   \* what each command is to change
          copy,     \* the sessions it loaded, then as it changed them
          fd,       \* the file it opened for writing
          meant,    \* history: the sessions after the commands that returned Ok
          overlapped \* history: commands that ran while another did

vars == <<names, data, pc, effect, copy, fd, meant, overlapped>>

Files == Commands \cup {Original}
Contents == {Garbled} \cup SUBSET Sessions

\* record_session and forget_sessions.
Recording(s) == [adds |-> {s}, drops |-> {}]
Forgetting(s) == [adds |-> {}, drops |-> {s}]
Applied(e, sessions) == (sessions \ e.drops) \cup e.adds

Init ==
    /\ names = [n \in {"state", "tmp"} |-> IF n = "state" THEN Original ELSE NoFile]
    /\ data = [f \in Files |-> {}]
    /\ pc = [c \in Commands |-> "idle"]
    /\ effect \in [Commands -> Effects]
    /\ copy = [c \in Commands |-> {}]
    /\ fd = [c \in Commands |-> NoFile]
    /\ meant = {}
    /\ overlapped = {}

Goto(c, step) == pc' = [pc EXCEPT ![c] = step]
Running(c) == pc[c] \in {"loaded", "opened", "written"}
Others(c) == {d \in Commands \ {c} : Running(d)}

\* State::load: a truncated file is an empty state, as a missing one is.
Load(c) ==
    /\ pc[c] = "idle"
    /\ data[names["state"]] # Garbled
    /\ copy' = [copy EXCEPT ![c] = Applied(effect[c], data[names["state"]])]
    /\ Goto(c, "loaded")
    /\ overlapped' = overlapped \cup Others(c) \cup (IF Others(c) = {} THEN {} ELSE {c})
    /\ UNCHANGED <<names, data, effect, fd, meant>>

\* "A malformed file is an error": the command fails.
LoadFails(c) ==
    /\ pc[c] = "idle"
    /\ data[names["state"]] = Garbled
    /\ Goto(c, "failed")
    /\ UNCHANGED <<names, data, effect, copy, fd, meant, overlapped>>

\* Mutant: the file itself is opened.
OpenState(c) ==
    /\ pc[c] = "loaded"
    /\ fd' = [fd EXCEPT ![c] = names["state"]]
    /\ data' = [data EXCEPT ![names["state"]] = {}]
    /\ Goto(c, "opened")
    /\ UNCHANGED <<names, effect, copy, meant, overlapped>>

\* Mutant: what the temporary name stands for is not truncated.
OpenTmpKeepsText(c) ==
    /\ pc[c] = "loaded"
    /\ LET file == IF names["tmp"] = NoFile THEN c ELSE names["tmp"]
       IN  /\ names' = [names EXCEPT !["tmp"] = file]
           /\ fd' = [fd EXCEPT ![c] = file]
    /\ Goto(c, "opened")
    /\ UNCHANGED <<data, effect, copy, meant, overlapped>>

\* fs::write opens the temporary name, making a file if there is none, and
\* truncates what it opened.
OpenTmp(c) ==
    /\ pc[c] = "loaded"
    /\ LET file == IF names["tmp"] = NoFile THEN c ELSE names["tmp"]
       IN  /\ names' = [names EXCEPT !["tmp"] = file]
           /\ fd' = [fd EXCEPT ![c] = file]
           /\ data' = [data EXCEPT ![file] = {}]
    /\ Goto(c, "opened")
    /\ UNCHANGED <<effect, copy, meant, overlapped>>

\* Text written from offset 0 over what is there: the tail of a longer text
\* stays behind it.  A session more is a longer text; otherwise the lengths
\* depend on names and ports.
Shorter(a, b) == a \subseteq b /\ a # b
Overwritten(old, new) ==
    CASE old = Garbled -> {new, Garbled}
      [] old # Garbled /\ (old = {} \/ Shorter(old, new)) -> {new}
      [] old # Garbled /\ old # {} /\ Shorter(new, old) -> {Garbled}
      [] OTHER -> {new, Garbled}

Fill(c) ==
    /\ pc[c] = "opened"
    /\ \E text \in Overwritten(data[fd[c]], copy[c]) : data' = [data EXCEPT ![fd[c]] = text]
    /\ Goto(c, "written")
    /\ UNCHANGED <<names, effect, copy, fd, meant, overlapped>>

Rename(c) ==
    /\ pc[c] = "written"
    /\ names["tmp"] # NoFile
    /\ names' = [state |-> names["tmp"], tmp |-> NoFile]
    /\ meant' = Applied(effect[c], meant)
    /\ Goto(c, "ok")
    /\ UNCHANGED <<data, effect, copy, fd, overlapped>>

\* Another command has renamed the temporary file away.
RenameFails(c) ==
    /\ pc[c] = "written"
    /\ names["tmp"] = NoFile
    /\ Goto(c, "failed")
    /\ UNCHANGED <<names, data, effect, copy, fd, meant, overlapped>>

\* Ctrl-C while up is still starting, SIGKILL, or a full disk; a write may be
\* cut short.
Die(c) ==
    /\ Running(c)
    /\ \/ UNCHANGED data
       \/ pc[c] = "opened" /\ data' = [data EXCEPT ![fd[c]] = Garbled]
    /\ Goto(c, "failed")
    /\ UNCHANGED <<names, effect, copy, fd, meant, overlapped>>

Finished ==
    /\ \A c \in Commands : pc[c] \in {"ok", "failed"}
    /\ UNCHANGED vars

Next ==
    \/ \E c \in Commands : \/ Load(c) \/ LoadFails(c) \/ OpenTmp(c) \/ Fill(c)
                           \/ Rename(c) \/ RenameFails(c) \/ Die(c)
    \/ Finished

Spec == Init /\ [][Next]_vars

-----------------------------------------------------------------------------
(* Properties *)

\* As long as no two commands overlap, the file is exactly as the ones that
\* returned Ok meant it, at every instant and wherever the others died.
FileIsMeant == overlapped = {} => data[names["state"]] = meant

\* Whatever earlier commands, overlapping or dying, left under the temporary
\* name and in the files, a command that overlaps no other leaves in the file
\* exactly the sessions it loaded, changed as it was to change them.
LoneSaveIsExact ==
    [][\A c \in Commands :
        pc[c] = "written" /\ pc'[c] = "ok" /\ c \notin overlapped =>
            data'[names'["state"]] = copy[c]]_vars

-----------------------------------------------------------------------------
(* The inductive invariant behind both. *)

\* The values the variables range over.
TypeOK ==
    /\ names \in [{"state", "tmp"} -> Files \cup {NoFile}] /\ names["state"] # NoFile
    /\ data \in [Files -> Contents]
    /\ pc \in [Commands -> {"idle", "loaded", "opened", "written", "ok", "failed"}]
    /\ effect \in [Commands -> Effects]
    /\ copy \in [Commands -> SUBSET Sessions]
    /\ fd \in [Commands -> Files \cup {NoFile}]
    /\ meant \subseteq Sessions
    /\ overlapped \subseteq Commands

\* The two names never stand for one file: what is written under the temporary
\* name is never state.json itself.
NamesApart == names["state"] # names["tmp"]

\* No name stands yet for the file a command would make.
NotMadeYet ==
    \A c \in Commands : pc[c] \in {"idle", "loaded"} => \A n \in {"state", "tmp"} : names[n] # c

\* A command that overlaps no other is alone, and from its open to its rename
\* the temporary name is its own file, which holds what it has written.
LoneCommand ==
    \A c \in Commands \ overlapped :
        /\ Running(c) => Others(c) = {}
        /\ pc[c] \in {"opened", "written"} => fd[c] = names["tmp"] /\ fd[c] # NoFile
        /\ pc[c] = "opened" => data[fd[c]] = {}
        /\ pc[c] = "written" => data[fd[c]] = copy[c]

\* Before any overlap, a command under way has applied its effect to what the
\* commands before it meant.
CopyIsMeant ==
    overlapped = {} => \A c \in Commands : Running(c) => copy[c] = Applied(effect[c], meant)

\* Why the file is as meant: no file is written while it is state.json.
IndInv ==
    /\ TypeOK
    /\ NamesApart /\ NotMadeYet /\ LoneCommand /\ CopyIsMeant /\ FileIsMeant
=============================================================================
