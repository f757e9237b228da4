----------------------------- MODULE PresenceMap -----------------------------
(***************************************************************************)
(* The presence map (realtime/presencemap.py) as a value: the item known   *)
(* for each member key, whether a sync is in progress, and the keys that   *)
(* were there when it started and have not been named since.               *)
(*                                                                         *)
(* An item stands for a presence message: its message serial and index,    *)
(* its timestamp, and whether it is synthesized, that is, its id does not  *)
(* start with its connection id.                                           *)
(***************************************************************************)
EXTENDS Naturals

CONSTANTS
  Keys,   \* the member keys
  None    \* no item

ASSUME NoneAssumption == None \notin [action : {"present", "absent"}, serial : Nat, time : Nat,
                                      synthesized : BOOLEAN]

Items == [action : {"present", "absent"}, serial : Nat, time : Nat, synthesized : BOOLEAN]

Maps == [items : [Keys -> Items \union {None}], residual : SUBSET Keys, syncing : BOOLEAN]

EmptyMap == [items |-> [k \in Keys |-> None], residual |-> {}, syncing |-> FALSE]

\* _is_newer: timestamps decide when either item is synthesized, serials otherwise.
IsNewer(item, existing) ==
  IF item.synthesized \/ existing.synthesized
  THEN item.time >= existing.time
  ELSE item.serial > existing.serial

\* What put() and remove() return.
PutAccepts(m, k, item) == m.items[k] = None \/ IsNewer(item, m.items[k])
RemoveAccepts(m, k, item) == m.items[k] # None /\ IsNewer(item, m.items[k])

\* The keys out of ks whose items put() accepts.
Accepted(m, ks, item) == {k \in ks : PutAccepts(m, k, item[k])}

\* put() of the items given for the keys ks; the newness check comes after the key has
\* been struck off the residual members.
Put(m, ks, item) ==
  [items    |-> [k \in Keys |-> IF k \in ks /\ PutAccepts(m, k, item[k])
                                THEN [item[k] EXCEPT !.action = "present"]
                                ELSE m.items[k]],
   residual |-> m.residual \ ks,
   syncing  |-> m.syncing]

\* Mutant of Remove: a member is removed also while a sync is in progress.
RemoveOutright(m, k, item) ==
  IF RemoveAccepts(m, k, item) THEN [m EXCEPT !.items[k] = None] ELSE m

\* remove(): while a sync is in progress the item stays, as absent.
Remove(m, k, item) ==
  IF RemoveAccepts(m, k, item)
  THEN [m EXCEPT !.items[k] = IF m.syncing THEN [item EXCEPT !.action = "absent"] ELSE None]
  ELSE m

\* values().
Present(m) == {k \in Keys : m.items[k] # None /\ m.items[k].action = "present"}
Absent(m) == {k \in Keys : m.items[k] # None /\ m.items[k].action = "absent"}

\* start_sync(): nothing happens when a sync is in progress.
StartSync(m) ==
  IF m.syncing
  THEN m
  ELSE [m EXCEPT !.residual = {k \in Keys : m.items[k] # None}, !.syncing = TRUE]

\* Mutant of EndSync: the absent members are not removed.
EndSyncKeepingAbsent(m) ==
  IF m.syncing
  THEN [items    |-> [k \in Keys |-> IF k \in m.residual THEN None ELSE m.items[k]],
        residual |-> {},
        syncing  |-> FALSE]
  ELSE m

\* end_sync(); it returns the members of m.residual and Absent(m).
EndSync(m) ==
  IF m.syncing
  THEN [items    |-> [k \in Keys |-> IF k \in m.residual \union Absent(m) THEN None ELSE m.items[k]],
        residual |-> {},
        syncing  |-> FALSE]
  ELSE m
=============================================================================
