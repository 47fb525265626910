--------------------------- MODULE DeviceIdentity ---------------------------
(***************************************************************************)
(* loadDeviceID (cmd/ssc-init/main.go): the first command on a machine     *)
(* creates the random identity that every audit record carries, the later  *)
(* ones read it.  First commands may run at once and take no lock.         *)
(***************************************************************************)
EXTENDS Shared, Integers

CONSTANT MaxDeviceFaults   \* bound: crashes and failed creations, writes and closes

ASSUME DeviceAssumption == MaxDeviceFaults \in Nat /\ "invalid" \notin Procs \cup {None}

VARIABLES
    idFile,   \* None, "partial" with its writer, or the identity of the process that drew it
    dpc,
    identity, \* what the command got: None, "invalid" or an identity
    given,    \* history: identities that were ever returned
    deviceFaults

deviceVars == <<idFile, dpc, identity, given, deviceFaults>>

(* A complete file holds 64 hexadecimal digits; anything shorter does not  *)
(* decode.  An identity is named by the process that drew it.              *)
NoFile == [by |-> None, whole |-> FALSE]
Partially(p) == [by |-> p, whole |-> FALSE]
Whole(p) == [by |-> p, whole |-> TRUE]

DeviceFault == deviceFaults < MaxDeviceFaults /\ deviceFaults' = deviceFaults + 1

Identify(p, value) ==
    /\ dpc' = [dpc EXCEPT ![p] = "done"]
    /\ identity' = [identity EXCEPT ![p] = value]
    /\ given' = given \cup ({value} \ {"invalid"})

ReadFile(p) == Identify(p, IF idFile.whole THEN idFile.by ELSE "invalid")

(* Mutant: what was read before the file exists is taken for an identity. *)
BugReadsNothing(p) ==
    /\ dpc[p] = "read"
    /\ Identify(p, idFile.by)
    /\ UNCHANGED <<idFile, deviceFaults>>

(* The first read: only a missing file leads on to its creation. *)
ReadIdentity(p) ==
    /\ dpc[p] = "read"
    /\ \/ idFile # NoFile /\ ReadFile(p) /\ UNCHANGED deviceFaults
       \/ idFile = NoFile /\ dpc' = [dpc EXCEPT ![p] = "create"] /\ UNCHANGED <<identity, given, deviceFaults>>
       \/ DeviceFault /\ Identify(p, "invalid")
    /\ UNCHANGED idFile

(* Mutant: no O_EXCL, the second command truncates the file of the first. *)
BugTruncates(p) ==
    /\ dpc[p] = "create"
    /\ idFile' = Partially(p)
    /\ dpc' = [dpc EXCEPT ![p] = "write"]
    /\ UNCHANGED <<identity, given, deviceFaults>>

(* Mutant: a cancelled context is seen between the creation and the write. *)
BugLeavesPartial(p) ==
    /\ dpc[p] = "create"
    /\ \/ /\ idFile = NoFile /\ idFile' = Partially(p)
          /\ (dpc' = [dpc EXCEPT ![p] = "write"] /\ UNCHANGED <<identity, given>>) \/ Identify(p, "invalid")
       \/ idFile # NoFile /\ ReadFile(p) /\ UNCHANGED idFile
    /\ UNCHANGED deviceFaults

(* O_EXCL: who finds a file reads what the other has written so far. *)
CreateIdentity(p) ==
    /\ dpc[p] = "create"
    /\ \/ idFile = NoFile /\ idFile' = Partially(p) /\ dpc' = [dpc EXCEPT ![p] = "write"]
          /\ UNCHANGED <<identity, given, deviceFaults>>
       \/ idFile # NoFile /\ ReadFile(p) /\ UNCHANGED <<idFile, deviceFaults>>
       \/ DeviceFault /\ Identify(p, "invalid") /\ UNCHANGED idFile

(* A failed write removes the file, unless that fails as well, which is    *)
(* ignored; a failed close leaves it.                                      *)
WriteIdentity(p) ==
    /\ dpc[p] = "write"
    /\ \/ idFile' = Whole(p) /\ Identify(p, p) /\ UNCHANGED deviceFaults
       \/ DeviceFault /\ idFile' \in {NoFile, Partially(p), Whole(p)} /\ Identify(p, "invalid")

DeviceDone(p) ==
    /\ dpc[p] = "done"
    /\ dpc' = [dpc EXCEPT ![p] = "read"]
    /\ identity' = [identity EXCEPT ![p] = None]
    /\ UNCHANGED <<idFile, given, deviceFaults>>

(* The process dies, another command takes its place. *)
DeviceCrash(p) ==
    /\ DeviceFault
    /\ dpc' = [dpc EXCEPT ![p] = "read"]
    /\ identity' = [identity EXCEPT ![p] = None]
    /\ UNCHANGED <<idFile, given>>

DeviceInit ==
    /\ idFile = NoFile
    /\ dpc = [p \in Procs |-> "read"]
    /\ identity = [p \in Procs |-> None]
    /\ given = {} /\ deviceFaults = 0

DeviceNext ==
    \E p \in Procs : ReadIdentity(p) \/ CreateIdentity(p) \/ WriteIdentity(p) \/ DeviceDone(p) \/ DeviceCrash(p)

DeviceSpec == DeviceInit /\ [][DeviceNext]_deviceVars

-----------------------------------------------------------------------------
DeviceTypeOK ==
    /\ idFile \in [by : Procs \cup {None}, whole : BOOLEAN]
    /\ dpc \in [Procs -> {"read", "create", "write", "done"}]
    /\ identity \in [Procs -> Procs \cup {None, "invalid"}]
    /\ given \subseteq Procs
    /\ deviceFaults \in 0..MaxDeviceFaults

(* Two commands never report two identities for one machine, whoever came  *)
(* first and whatever failed; the file, once complete, is that identity.   *)
OneIdentity ==
    \A a \in given : \A b \in given : a = b /\ idFile = Whole(a)

(* A file that stays incomplete, and so denies every later scan its audit  *)
(* record, was left by a crash; otherwise its writer is still at work.     *)
PartialExplained ==
    idFile.by # None /\ ~idFile.whole => dpc[idFile.by] = "write" \/ deviceFaults > 0

=============================================================================
