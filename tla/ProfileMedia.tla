---------------------------- MODULE ProfileMedia ----------------------------
(***************************************************************************)
(* The pictures of users (updateAvatar, removeAvatar of UsersService,      *)
(* ProfileMediaService, the attachment storage), and the backup of rows    *)
(* and objects while they change (tools/migration-safety: backup and       *)
(* restore-test).                                                          *)
(*                                                                         *)
(* The object storage and the database share no transaction: a picture is  *)
(* stored, then the row is written, then the former object is deleted, and *)
(* each of these may fail or be the last before the process stops.  The    *)
(* name of an object is fresh.  Who may change a picture, its type and its *)
(* size are checked before anything is stored and left out; so are objects *)
(* of other kinds.                                                         *)
(***************************************************************************)
EXTENDS FiniteSets

CONSTANTS
    Users,    \* users of one organization
    Objects,  \* BOUND: the names of objects, in the order of their use
    Calls,    \* calls of the API under way at the same time
    None

VARIABLES
    avatar,  \* users.avatarObjectKey
    stored,  \* the objects of the bucket
    fresh,   \* names not given yet
    call,    \* calls under way
    backup,  \* the backup under way or made
    lost,    \* history: objects of a row whose write was reported as failed
    leaked   \* history: objects nobody was left to delete, see OnlyLeaks

mediaVars == <<avatar, stored, fresh, call, backup, lost, leaked>>

Key == Objects \cup {None}
UpdateCall == [step : {"reading", "saving", "cleaning"}, user : Users, new : Key, old : Key]
RemoveCall == [step : {"removing", "cleaning"}, user : Users, new : {None}, old : Key]

\* listed, rows and copied: the inventory of the bucket, the dump and the
\* mirror.  still: no row was inserted between the dump and the inventory of
\* the tables.  transient is history: objects stored and deleted since listed.
Backup == [step : {"listed", "dumped", "counted", "made", "tested"}, listed : SUBSET Objects,
           rows : [Users -> Key], still : BOOLEAN, copied : SUBSET Objects,
           saved : SUBSET Objects, transient : SUBSET Objects]

\* What the constants are; assumed where this module is instantiated.
MediaAssumption == None \notin Objects \cup UpdateCall \cup RemoveCall \cup Backup

At(c, step) == call[c] # None /\ call[c].step = step
Return(c) == call' = [call EXCEPT ![c] = None]
Referenced == {avatar[u] : u \in Users} \ {None}
UnderWay == {k \in Objects : \E c \in Calls : call[c] # None /\ k \in {call[c].new, call[c].old}}

MediaInit ==
    /\ avatar = [u \in Users |-> None]
    /\ stored = {}
    /\ fresh = Objects
    /\ call = [c \in Calls |-> None]
    /\ backup = None
    /\ lost = {}
    /\ leaked = {}

-----------------------------------------------------------------------------
(* Objects.                                                                *)

\* storage.save
Save(k) ==
    /\ stored' = stored \cup {k}
    /\ backup' = IF backup = None THEN None ELSE [backup EXCEPT !.saved = @ \cup {k}]

\* storage.delete: also of an object that is not there.
Delete(k, b) ==
    /\ stored' = stored \ {k}
    /\ backup' = IF b = None \/ k \notin b.saved THEN b ELSE [b EXCEPT !.transient = @ \cup {k}]

\* audit.record: one more row.
Recorded(b) == IF b # None /\ b.step = "dumped" THEN [b EXCEPT !.still = FALSE] ELSE b

-----------------------------------------------------------------------------
(* Pictures.                                                               *)

\* updateAvatar reads the user ...
UpdateRead(c, u) ==
    /\ call[c] = None
    /\ call' = [call EXCEPT ![c] = [step |-> "reading", user |-> u, new |-> None, old |-> avatar[u]]]
    /\ UNCHANGED <<avatar, stored, fresh, backup, lost, leaked>>

\* MUTANT of UpdateSave: the former picture makes room for the new one.
UpdateSave_Replaces(c, k) ==
    /\ At(c, "reading") /\ k \in fresh
    /\ fresh' = fresh \ {k}
    /\ stored' = (stored \cup {k}) \ {call[c].old}
    /\ call' = [call EXCEPT ![c] = [@ EXCEPT !.step = "saving", !.new = k]]
    /\ UNCHANGED <<avatar, backup, lost, leaked>>

\* ... stores the picture ...
UpdateSave(c, k) ==
    /\ At(c, "reading") /\ k \in fresh
    /\ fresh' = fresh \ {k}
    /\ Save(k)
    /\ call' = [call EXCEPT ![c] = [@ EXCEPT !.step = "saving", !.new = k]]
    /\ UNCHANGED <<avatar, lost, leaked>>

\* ... and writes the row.  An object that the row names by now, other than
\* the one that was read, is nobody's to delete.
UpdateWrite(c) ==
    /\ At(c, "saving")
    /\ LET u == call[c].user
       IN /\ avatar' = [avatar EXCEPT ![u] = call[c].new]
          /\ leaked' = leaked \cup ({avatar[u]} \ {None, call[c].old})
    /\ call' = [call EXCEPT ![c] = [@ EXCEPT !.step = "cleaning", !.new = None]]
    /\ UNCHANGED <<stored, fresh, backup, lost>>

\* If the write is reported as failed the new object is deleted: also when it
\* was done, and only the answer did not arrive.
UpdateFails(c) ==
    /\ At(c, "saving")
    /\ LET u == call[c].user  k == call[c].new
       IN /\ \/ UNCHANGED <<avatar, lost, leaked>>
             \/ /\ avatar' = [avatar EXCEPT ![u] = k]
                /\ lost' = lost \cup {k}
                /\ leaked' = leaked \cup ({avatar[u]} \ {None})
          /\ Delete(k, backup)
    /\ Return(c)
    /\ UNCHANGED fresh

\* removeAvatar reads the user ...
RemoveRead(c, u) ==
    /\ call[c] = None
    /\ call' = [call EXCEPT ![c] = [step |-> "removing", user |-> u, new |-> None, old |-> avatar[u]]]
    /\ UNCHANGED <<avatar, stored, fresh, backup, lost, leaked>>

\* ... and clears the row.
RemoveWrite(c) ==
    /\ At(c, "removing")
    /\ LET u == call[c].user
       IN /\ avatar' = [avatar EXCEPT ![u] = None]
          /\ leaked' = leaked \cup ({avatar[u]} \ {None, call[c].old})
    /\ call' = [call EXCEPT ![c].step = "cleaning"]
    /\ UNCHANGED <<stored, fresh, backup, lost>>

\* Both end with the former object and the audit record; that the object could
\* not be deleted is passed over.
DeleteOld(c) ==
    /\ At(c, "cleaning")
    /\ LET k == call[c].old
       IN \/ k # None /\ Delete(k, Recorded(backup)) /\ UNCHANGED leaked
          \/ /\ leaked' = leaked \cup ({k} \ {None})
             /\ backup' = Recorded(backup)
             /\ UNCHANGED stored
    /\ Return(c)
    /\ UNCHANGED <<avatar, fresh, lost>>

-----------------------------------------------------------------------------
(* The backup.                                                             *)

\* backup lists the objects ...
ListObjects ==
    /\ backup = None
    /\ backup' = [step |-> "listed", listed |-> stored, rows |-> avatar, still |-> TRUE,
                  copied |-> {}, saved |-> {}, transient |-> {}]
    /\ UNCHANGED <<avatar, stored, fresh, call, lost, leaked>>

\* ... dumps the database ...
Dump ==
    /\ backup # None /\ backup.step = "listed"
    /\ backup' = [backup EXCEPT !.step = "dumped", !.rows = avatar]
    /\ UNCHANGED <<avatar, stored, fresh, call, lost, leaked>>

\* ... counts the rows of its tables ...
CountRows ==
    /\ backup # None /\ backup.step = "dumped"
    /\ backup' = [backup EXCEPT !.step = "counted"]
    /\ UNCHANGED <<avatar, stored, fresh, call, lost, leaked>>

\* ... and copies the objects: as many as were listed, or the backup fails.
Mirror ==
    /\ backup # None /\ backup.step = "counted"
    /\ backup' = IF Cardinality(stored) = Cardinality(backup.listed)
                 THEN [backup EXCEPT !.step = "made", !.copied = stored]
                 ELSE None
    /\ UNCHANGED <<avatar, stored, fresh, call, lost, leaked>>

\* restore-test compares the restored tables and objects with the inventories.
Matches(b) == b.still /\ b.copied = b.listed

RestoreTest ==
    /\ backup # None /\ backup.step = "made"
    /\ backup' = IF Matches(backup) THEN [backup EXCEPT !.step = "tested"] ELSE None
    /\ UNCHANGED <<avatar, stored, fresh, call, lost, leaked>>

-----------------------------------------------------------------------------
(* The environment.                                                        *)

\* The process stops, or the storage or a read fails: what the call has stored
\* or was to delete stays.
Die(c) ==
    /\ call[c] # None
    /\ leaked' = leaked \cup ({call[c].new} \ {None})
                        \cup (IF At(c, "cleaning") THEN {call[c].old} \ {None} ELSE {})
    /\ Return(c)
    /\ UNCHANGED <<avatar, stored, fresh, backup, lost>>

MediaNext ==
    \/ \E c \in Calls :
         \/ \E u \in Users : UpdateRead(c, u) \/ RemoveRead(c, u)
         \/ \E k \in Objects : UpdateSave(c, k)
         \/ UpdateWrite(c) \/ UpdateFails(c) \/ RemoveWrite(c) \/ DeleteOld(c) \/ Die(c)
    \/ ListObjects \/ Dump \/ CountRows \/ Mirror \/ RestoreTest

MediaSpec == MediaInit /\ [][MediaNext]_mediaVars

-----------------------------------------------------------------------------
(* Properties.                                                             *)

\* Type correctness.
MediaTypeOK ==
    /\ avatar \in [Users -> Key]
    /\ stored \subseteq Objects /\ fresh \subseteq Objects
    /\ call \in [Calls -> UpdateCall \cup RemoveCall \cup {None}]
    /\ backup = None \/ backup \in Backup
    /\ lost \subseteq Objects /\ leaked \subseteq Objects

\* Whatever updates and removals of one picture overlap, a row never names an
\* object that is gone, except after a write that was done and reported as
\* failed.
NamedIsStored == Referenced \subseteq stored \cup lost

\* An object no row names and no call works on is one that was overtaken by
\* another call, could not be deleted, or lost its call.
OnlyLeaks == stored \subseteq Referenced \cup UnderWay \cup leaked

\* A backup that passed its restore test has every object its rows name,
\* although rows and objects are copied one after the other under load: except
\* objects stored and deleted between, and those of a lost write.
RestoredIsComplete ==
    backup # None /\ backup.step = "tested" =>
        {backup.rows[u] : u \in Users} \ {None} \subseteq backup.copied \cup backup.transient \cup lost
=============================================================================
