------------------------------ MODULE Redeploy ------------------------------
(***************************************************************************)
(* What runs on a bastion, and `bastion redeploy`: the user-data script    *)
(* that installs the control plane at the first boot and the script that   *)
(* swaps its binary (src/bastion_provisioner.rs user_data_script,          *)
(* redeploy_script), several operators that upload a build to one S3       *)
(* object and have the bastion fetch it over SSM (src/main.rs              *)
(* bastion_redeploy, run_ssm_redeploy), and one who provisions meanwhile.  *)
(* Every operator's build is a version of its own.                         *)
(***************************************************************************)
EXTENDS Provisioner

CONSTANTS Operators,  \* each runs one redeploy
          First,      \* the version put into S3 by hand
          Good,       \* versions that serve once they are started
          Down

ASSUME OperatorsAssumption ==
    First \notin Operators /\ Down \notin Operators \cup {First}

VARIABLES s3,         \* the S3 object, as a set of one; none when nothing was uploaded
          boot,       \* how far the user-data script of each instance got
          new,        \* bastion-server.new: its version, and whether it is executable
          bin,        \* bastion-server, likewise; both are sets of one or none
          server,     \* the version that runs
          step,       \* how far each operator's command got
          onto,       \* the instance it found
          script,     \* how far the commands it sent to that instance got
          overlapped  \* history: redeploys that ran while another one did

host == <<boot, new, bin, server>>
redeploy == <<s3, step, onto, script, overlapped>>
allVars == <<instance, where, role, profile, group, ingress,
             cmd, pc, subnet, alb, target, missing, issues, rerun,
             boot, new, bin, server, s3, step, onto, script, overlapped>>

Versions == Operators \cup {First}
Files == [version : Versions, executable : BOOLEAN]
AtMostOneFile == {{}} \cup {{f} : f \in Files}
Downloaded(v) == {[version |-> v, executable |-> FALSE]}
MadeExecutable(files) == {[f EXCEPT !.executable = TRUE] : f \in files}

HostInit ==
    /\ s3 \in {{}, {First}}
    /\ boot = [i \in Instances |-> "off"]
    /\ new = [i \in Instances |-> {}]
    /\ bin = [i \in Instances |-> {}]
    /\ server = [i \in Instances |-> Down]
    /\ step = [r \in Operators |-> "idle"]
    /\ onto = [r \in Operators |-> NoInstance]
    /\ script = [r \in Operators |-> "none"]
    /\ overlapped = {}

-----------------------------------------------------------------------------
(* The instance *)

InstanceRuns(i) == instance[i] = "running"
MayFetch == s3 # {} /\ profile = "bound" /\ role = {Policies}

BootGoes(i, from, to) ==
    /\ InstanceRuns(i)
    /\ boot[i] = from
    /\ boot' = [boot EXCEPT ![i] = to]
    /\ UNCHANGED <<vars, redeploy>>

\* aws s3 cp puts a whole file with the mode of a new one under the name.
BootFetches(i) ==
    /\ BootGoes(i, "start", "fetched")
    /\ MayFetch
    /\ \E v \in s3 : bin' = [bin EXCEPT ![i] = Downloaded(v)]
    /\ UNCHANGED <<new, server>>

BootMakesExecutable(i) ==
    /\ BootGoes(i, "fetched", "executable")
    /\ bin' = [bin EXCEPT ![i] = MadeExecutable(bin[i])]
    /\ UNCHANGED <<new, server>>

Started(files) ==
    IF \E f \in files : f.executable THEN (CHOOSE f \in files : TRUE).version ELSE Down

\* The key, nginx and its stub config, the unit, and enable --now.
BootStarts(i) ==
    /\ BootGoes(i, "executable", "done")
    /\ server' = [server EXCEPT ![i] = Started(bin[i])]
    /\ UNCHANGED <<new, bin>>

\* set -e: any step that fails is the last one.  EC2 knows nothing of it.
BootAborts(i) ==
    /\ \E from \in {"start", "fetched", "executable"} : BootGoes(i, from, "aborted")
    /\ UNCHANGED <<new, bin, server>>

\* Restart=always: whenever it dies, the file that is there is started.
Restarts(i) ==
    /\ InstanceRuns(i)
    /\ boot[i] = "done"
    /\ server[i] # Started(bin[i])
    /\ server' = [server EXCEPT ![i] = Started(bin[i])]
    /\ UNCHANGED <<vars, redeploy, boot, new, bin>>

-----------------------------------------------------------------------------
(* The redeploy script, on the instance *)

ScriptOver == {"none", "Success", "Failed"}

ScriptGoes(r, from, to) ==
    /\ script[r] = from
    /\ InstanceRuns(onto[r])
    /\ script' = [script EXCEPT ![r] = to]
    /\ UNCHANGED <<vars, s3, step, onto, overlapped, boot>>

\* Mutant: the object is fetched over the binary itself.
FetchInPlace(r) ==
    /\ ScriptGoes(r, "sent", "fetched")
    /\ MayFetch
    /\ \E v \in s3 : bin' = [bin EXCEPT ![onto[r]] = Downloaded(v)]
    /\ UNCHANGED <<new, server>>

\* Whatever the object is by now.
Fetch(r) ==
    /\ ScriptGoes(r, "sent", "fetched")
    /\ MayFetch
    /\ \E v \in s3 : new' = [new EXCEPT ![onto[r]] = Downloaded(v)]
    /\ UNCHANGED <<bin, server>>

\* chmod and mv fail when another script has moved the file.
Chmod(r) ==
    /\ ScriptGoes(r, "fetched", "executable")
    /\ new[onto[r]] # {}
    /\ new' = [new EXCEPT ![onto[r]] = MadeExecutable(new[onto[r]])]
    /\ UNCHANGED <<bin, server>>

Swap(r) ==
    /\ ScriptGoes(r, "executable", "swapped")
    /\ new[onto[r]] # {}
    /\ bin' = [bin EXCEPT ![onto[r]] = new[onto[r]]]
    /\ new' = [new EXCEPT ![onto[r]] = {}]
    /\ UNCHANGED server

\* Mutant: systemctl restart left out.
RestartUnitNot(r) ==
    /\ ScriptGoes(r, "swapped", "restarted")
    /\ boot[onto[r]] = "done"
    /\ UNCHANGED <<new, bin, server>>

\* Mutant: the new binary is started whether or not there is a unit.
RestartAnyway(r) ==
    /\ ScriptGoes(r, "swapped", "restarted")
    /\ server' = [server EXCEPT ![onto[r]] = Started(bin[onto[r]])]
    /\ UNCHANGED <<new, bin>>

\* There is no unit before the user-data script has written it.
RestartUnit(r) ==
    /\ ScriptGoes(r, "swapped", "restarted")
    /\ boot[onto[r]] = "done"
    /\ server' = [server EXCEPT ![onto[r]] = Started(bin[onto[r]])]
    /\ UNCHANGED <<new, bin>>

\* is-active and curl, two seconds later.
Verify(r) ==
    /\ ScriptGoes(r, "restarted", "Success")
    /\ server[onto[r]] \in Good
    /\ UNCHANGED <<new, bin, server>>

\* set -e again; or SSM gives the commands up.
ScriptFails(r) ==
    /\ script[r] \notin ScriptOver
    /\ script' = [script EXCEPT ![r] = "Failed"]
    /\ UNCHANGED <<vars, host, s3, step, onto, overlapped>>

ScriptStep(r) ==
    Fetch(r) \/ Chmod(r) \/ Swap(r) \/ RestartUnit(r) \/ Verify(r) \/ ScriptFails(r)

-----------------------------------------------------------------------------
(* The operators *)

Active(r) == step[r] \in {"uploaded", "polling", "blind"} \/ script[r] \notin ScriptOver

Turns(r, from, to) ==
    /\ step[r] = from
    /\ step' = [step EXCEPT ![r] = to]
    /\ UNCHANGED <<vars, host>>

FindBastion(r) ==
    /\ Turns(r, "idle", "found")
    /\ \E i \in Found : onto' = [onto EXCEPT ![r] = i]
    /\ UNCHANGED <<s3, script, overlapped>>

\* The build, or the binary that --skip-build takes, is put in the place of
\* what was there.
Upload(r) ==
    /\ Turns(r, "found", "uploaded")
    /\ s3' = {r}
    /\ LET others == {q \in Operators \ {r} : Active(q)} IN
       overlapped' = IF others = {} THEN overlapped ELSE overlapped \cup others \cup {r}
    /\ UNCHANGED <<onto, script>>

\* SSM takes commands for an instance whose agent is online.
Send(r) ==
    /\ Turns(r, "uploaded", "polling")
    /\ CanRegister(onto[r])
    /\ script' = [script EXCEPT ![r] = "sent"]
    /\ UNCHANGED <<s3, onto, overlapped>>

\* No bastion, no build, no upload, no command id.
GiveUp(r) ==
    /\ \E from \in {"idle", "found", "uploaded"} : Turns(r, from, "failed")
    /\ UNCHANGED <<s3, onto, script, overlapped>>

PollEnds(r) ==
    /\ script[r] \in {"Success", "Failed"}
    /\ Turns(r, "polling", IF script[r] = "Success" THEN "ok" ELSE "failed")
    /\ UNCHANGED <<s3, onto, script, overlapped>>

\* "stuck in status ... after 3 min", however fast the commands are otherwise;
\* nobody cancels them.
PollFindsItStuck(r) ==
    /\ script[r] \notin ScriptOver
    /\ Turns(r, "polling", "failed")
    /\ UNCHANGED <<s3, onto, script, overlapped>>

\* From now on get-command-invocation fails: the credentials have expired.
LosesAccess(r) ==
    /\ Turns(r, "polling", "blind")
    /\ UNCHANGED <<s3, onto, script, overlapped>>

\* Mutant: a call that fails is made again, without a look at the clock.
PollErrorRetries(r) == step[r] = "blind" /\ UNCHANGED allVars

\* The deadline is kept here too.
PollError(r) ==
    /\ Turns(r, "blind", "failed")
    /\ UNCHANGED <<s3, onto, script, overlapped>>

OperatorStep(r) ==
    \/ Upload(r) \/ Send(r) \/ GiveUp(r)
    \/ PollEnds(r) \/ PollFindsItStuck(r) \/ PollError(r)

-----------------------------------------------------------------------------
(* Instances come and go with the commands of Provisioner. *)

Launched == {i \in Instances : instance[i] = "none" /\ instance'[i] = "pending"}
Stopped == {i \in Live : instance'[i] = "shutting-down"}

\* An instance that shuts down takes its disk and what runs on it with it.
Provision ==
    /\ Next
    /\ boot' = [i \in Instances |-> IF i \in Launched THEN "start"
                                    ELSE IF i \in Stopped THEN "off" ELSE boot[i]]
    /\ new' = [i \in Instances |-> IF i \in Stopped THEN {} ELSE new[i]]
    /\ bin' = [i \in Instances |-> IF i \in Stopped THEN {} ELSE bin[i]]
    /\ server' = [i \in Instances |-> IF i \in Stopped THEN Down ELSE server[i]]
    /\ script' = [r \in Operators |->
                      IF onto[r] \in Stopped /\ script[r] \notin ScriptOver
                      THEN "Failed" ELSE script[r]]
    /\ UNCHANGED <<s3, step, onto, overlapped>>

CloudInit == Init /\ HostInit

CloudNext ==
    \/ Provision
    \/ \E i \in Instances :
           \/ BootFetches(i) \/ BootMakesExecutable(i) \/ BootStarts(i) \/ BootAborts(i)
           \/ Restarts(i)
    \/ \E r \in Operators :
           FindBastion(r) \/ OperatorStep(r) \/ LosesAccess(r) \/ ScriptStep(r)

CloudSpec == CloudInit /\ [][CloudNext]_allVars

\* A redeploy that was started goes on: its aws and cargo commands end, and its
\* three minutes do.  The script on the instance may hang for ever.
CloudFairSpec ==
    /\ CloudSpec
    /\ \A r \in Operators : WF_allVars(OperatorStep(r))

-----------------------------------------------------------------------------
(* Properties *)

\* The values the variables range over; what runs runs under its unit.
HostTypeOK ==
    /\ s3 \in {{}} \cup {{v} : v \in Versions}
    /\ boot \in [Instances -> {"off", "start", "fetched", "executable", "done", "aborted"}]
    /\ new \in [Instances -> AtMostOneFile] /\ bin \in [Instances -> AtMostOneFile]
    /\ server \in [Instances -> Versions \cup {Down}]
    /\ step \in [Operators -> {"idle", "found", "uploaded", "polling", "blind", "ok", "failed"}]
    /\ onto \in [Operators -> Instances \cup {NoInstance}]
    /\ script \in [Operators -> ScriptOver \cup
                       {"sent", "fetched", "executable", "swapped", "restarted"}]
    /\ overlapped \subseteq Operators
    /\ \A i \in Instances : server[i] # Down => boot[i] = "done"

\* "bastion-server redeployed on ..." (main.rs:347) is true: when the redeploy
\* that said so overlapped no other one, commands included that an operator
\* gave up on earlier, the bastion runs that operator's build, and nothing
\* else is installed until the next upload; whatever the boot script, a crash
\* or a destroy and init did meanwhile.
RedeployInstalls ==
    \A r \in Operators \ overlapped :
        step[r] = "ok" /\ s3 = {r} /\ boot[onto[r]] = "done" /\ InstanceRuns(onto[r]) =>
            /\ server[onto[r]] = r
            /\ bin[onto[r]] = {[version |-> r, executable |-> TRUE]}

\* A redeploy that fails, hangs or is abandoned at any point leaves a binary
\* that systemd can start again, as long as no two overlap: the download goes
\* to .new and is moved when it is executable (bastion_provisioner.rs:253-264).
AlwaysStartable ==
    overlapped = {} =>
        \A i \in Instances :
            InstanceRuns(i) /\ boot[i] = "done" => \E f \in bin[i] : f.executable

\* A redeploy ends, however long its script hangs and whether or not its
\* status can be asked for: "Bounded so that a hung command doesn't wedge the
\* whole flow" (main.rs:390-391).
RedeployEnds ==
    \A r \in Operators : step[r] = "found" ~> step[r] \in {"ok", "failed"}

-----------------------------------------------------------------------------
(* The inductive invariant behind the first three. *)

\* A redeploy sends commands once it has uploaded, to the instance it found,
\* and says that they succeeded when they did.
StepsInOrder ==
    \A r \in Operators :
        /\ step[r] \in {"idle", "found", "uploaded"} => script[r] = "none"
        /\ step[r] \in {"idle", "found"} => s3 # {r}
        /\ step[r] \notin {"idle", "failed"} \/ script[r] # "none" => onto[r] \in Instances
        /\ step[r] = "ok" => script[r] = "Success"

\* Nothing boots or runs on an instance that is not up, nor on one that boots
\* before its binary is there.
HostsInOrder ==
    \A i \in Instances :
        /\ i \notin Live => boot[i] = "off"
        /\ boot[i] \in {"fetched", "executable", "done"} => bin[i] # {}
        /\ overlapped = {} /\ boot[i] \in {"executable", "done"} => \A f \in bin[i] : f.executable

Lone(r) == r \notin overlapped /\ s3 = {r}
Executable(v) == {[version |-> v, executable |-> TRUE]}

\* The build of r is what its commands find, on their way and, if the instance
\* comes back, after it.
FindsItsBuild(r) ==
    /\ script[r] = "fetched" => new[onto[r]] = Downloaded(r)
    /\ script[r] = "executable" => new[onto[r]] = Executable(r)
    /\ script[r] \in {"swapped", "restarted", "Success"} =>
           /\ \A f \in bin[onto[r]] : f.version = r
           /\ boot[onto[r]] \in {"executable", "done"} => bin[onto[r]] = Executable(r)
    /\ script[r] \in {"restarted", "Success"} /\ boot[onto[r]] = "done" => server[onto[r]] = r

\* A redeploy that overlaps none is alone, and its build is the last uploaded.
LoneRedeploy ==
    \A r \in Operators :
        /\ Active(r) /\ r \notin overlapped => s3 = {r}
        /\ Lone(r) => FindsItsBuild(r) /\ \A q \in Operators \ {r} : ~Active(q)

\* Why what is in place can be started, and is what was uploaded.
HostIndInv == HostTypeOK /\ StepsInOrder /\ HostsInOrder /\ LoneRedeploy

-----------------------------------------------------------------------------
(* What a comment of the code says, and two redeploys do not do. *)

\* bastion_provisioner.rs:623, a test of the script: "Atomic swap: download to
\* .new first, only mv into place after chmod".  What is in place is executable.
InstalledIsExecutable ==
    \A i \in Instances :
        InstanceRuns(i) /\ boot[i] = "done" => \E f \in bin[i] : f.executable
=============================================================================
