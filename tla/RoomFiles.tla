----------------------------- MODULE RoomFiles ------------------------------
(***************************************************************************)
(* room.json and room.json.bak (state/state.go).  Save keeps the last      *)
(* valid file as the backup and then replaces the file; each is written to *)
(* a temporary file that is synced and renamed.  The process may crash     *)
(* between any two steps, a write may fail, the machine may lose power     *)
(* (a rename that has not reached the disk is undone) and the file may be  *)
(* damaged from outside.  A version stands for the contents of a file.     *)
(*                                                                         *)
(* Load and Save do not agree on what a valid file is: loadOne refuses a   *)
(* field it does not know (or anything behind the value), the check before *)
(* the backup does not.                                                    *)
(***************************************************************************)
EXTENDS Naturals

CONSTANTS MaxVersion, MaxFaults

ASSUME FilesAssumption == MaxVersion \in Nat /\ MaxFaults \in Nat

Files == {"main", "bak"}
None == 0                    \* no file
Damaged == MaxVersion + 1    \* a file that is no room
Foreign == MaxVersion + 2    \* a room but for a field it does not have: the
                             \* name of an optional field was damaged

VARIABLES
    name,     \* what each name refers to
    disk,     \* what it refers to after a power failure
    temp,     \* the temporary file
    step,     \* where Save is
    version,  \* the version it saves
    old,      \* the file it has read
    lastSaved, \* history: the version of the last Save that succeeded
    durable,  \* history: a saved version has reached the disk
    power,    \* history: power was lost, or the file was damaged
    faults

fileVars == <<name, disk, temp, step, version, old, lastSaved, durable, power, faults>>

(* What Load accepts, and what Save finds worth a backup.                  *)
loadOne(v) == v \in 1 .. MaxVersion
validate(v) == v # None /\ v # Damaged

FilesInit ==
    /\ name = [f \in Files |-> None] /\ disk = name /\ temp = None
    /\ step = "idle" /\ version = None /\ old = None /\ lastSaved = None
    /\ durable = FALSE /\ power = FALSE /\ faults = 0

(* Load takes the backup when it refuses the file.                         *)
Load == IF loadOne(name["main"]) THEN name["main"]
        ELSE IF loadOne(name["bak"]) THEN name["bak"] ELSE None

-----------------------------------------------------------------------------
(* Mutant: the old file becomes the backup whatever is in it. *)
SaveUnchecked ==
    /\ step = "idle" /\ version < MaxVersion /\ version' = version + 1 /\ old' = name["main"]
    /\ step' = IF name["main"] # None THEN "bak" ELSE "main"
    /\ UNCHANGED <<name, disk, temp, lastSaved, durable, power, faults>>

(* Save reads the old file and backs it up if validate accepts it, whether *)
(* Load would or not.                                                      *)
Save ==
    /\ step = "idle" /\ version < MaxVersion /\ version' = version + 1 /\ old' = name["main"]
    /\ step' = IF validate(name["main"]) THEN "bak" ELSE "main"
    /\ UNCHANGED <<name, disk, temp, lastSaved, durable, power, faults>>

(* writeAtomic writes and syncs a temporary file,                          *)
WriteTemp(f) ==
    /\ step = f /\ temp = None
    /\ temp' = IF f = "main" THEN version ELSE old
    /\ UNCHANGED <<name, disk, step, version, old, lastSaved, durable, power, faults>>

(* and renames it.                                                         *)
Rename(f) ==
    /\ step = f /\ temp # None
    /\ name' = [name EXCEPT ![f] = temp] /\ temp' = None
    /\ step' = (IF f = "bak" THEN "main" ELSE "idle")
    /\ lastSaved' = (IF f = "main" THEN version ELSE lastSaved)
    /\ UNCHANGED <<disk, version, old, durable, power, faults>>

(* Any step may fail; the temporary file is removed.                       *)
WriteFails ==
    /\ step \in Files /\ faults < MaxFaults /\ faults' = faults + 1
    /\ step' = "idle" /\ temp' = None
    /\ UNCHANGED <<name, disk, version, old, lastSaved, durable, power>>

-----------------------------------------------------------------------------
(* The process ends; the temporary file stays and is never read.           *)
Crash ==
    /\ step # "idle" /\ step' = "idle" /\ temp' = None
    /\ UNCHANGED <<name, disk, version, old, lastSaved, durable, power, faults>>

(* The directory reaches the disk at any time, a name at a time.           *)
Flush(f) ==
    /\ disk[f] # name[f] /\ disk' = [disk EXCEPT ![f] = name[f]]
    /\ durable' = (durable \/ (f = "main" /\ loadOne(name["main"])))
    /\ UNCHANGED <<name, temp, step, version, old, lastSaved, power, faults>>

PowerLoss ==
    /\ faults < MaxFaults /\ faults' = faults + 1
    /\ name' = disk /\ temp' = None /\ step' = "idle" /\ power' = TRUE
    /\ UNCHANGED <<disk, version, old, lastSaved, durable>>

(* room.json is damaged, one way or the other, while there is a backup on  *)
(* the disk.                                                               *)
Damage ==
    /\ faults < MaxFaults /\ faults' = faults + 1 /\ power' = TRUE
    /\ loadOne(name["bak"]) /\ loadOne(disk["bak"])
    /\ \E v \in {Damaged, Foreign} : name' = [name EXCEPT !["main"] = v]
                                  /\ disk' = [disk EXCEPT !["main"] = v]
    /\ UNCHANGED <<temp, step, version, old, lastSaved, durable>>

FilesNext ==
    \/ Save \/ WriteFails \/ Crash \/ PowerLoss \/ Damage
    \/ \E f \in Files : WriteTemp(f) \/ Rename(f) \/ Flush(f)

FilesSpec == FilesInit /\ [][FilesNext]_fileVars

-----------------------------------------------------------------------------
(* Once a saved room has reached the disk, a room can be loaded, through   *)
(* crashes and failures of later saves, power failures and damage to       *)
(* room.json, but for one way to lose it: a file that validate accepts and *)
(* Load refuses has become the backup.                                     *)
RoomSurvives == durable /\ Load = None => name["bak"] = Foreign

(* What the manual says: the backup is the last valid state of the room,   *)
(* and it is read when room.json is damaged; so a saved room always loads. *)
BackupIsRead == durable => Load # None

(* A crash or a failing write never takes the room back: what loads is the *)
(* version that was saved last, or the one that was being saved.           *)
LoadsNewest == lastSaved # None /\ ~power => Load \in {lastSaved, version}
=============================================================================
