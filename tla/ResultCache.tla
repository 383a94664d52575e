---------------------------- MODULE ResultCache ----------------------------
(***************************************************************************)
(* The result cache of one node (ResultCache.plan, get, set, through,       *)
(* invalidateWorkspace, services/cache.ts) with the mutations that move a   *)
(* workspace's data epoch (WorkspaceService.bumpVersion, the finally of     *)
(* QueryService.run's execute).                                             *)
(*                                                                         *)
(* One workspace.  The content of its tables is a number that each mutation *)
(* moves on; the epoch is workspaces.data_version, bumped by the mutation   *)
(* when it is through.  A key is the text and the epoch (files, options and *)
(* policy scope are constant here).  Expiry may find any entry old, and     *)
(* which entry is least recently used is left open.                         *)
(***************************************************************************)
EXTENDS Naturals, FiniteSets, FiniteSetsExt

CONSTANTS
  Text,       \* cacheable operations (kind, text and options)
  Reader,     \* requests that go through the cache
  Writer,     \* requests that run mutating SQL
  Size,       \* possible sizes of a result
  MaxBytes,   \* cache.max_bytes
  MaxEntry,   \* cache.max_entry_bytes
  MaxData,    \* bound on the mutations
  BumpFaults, \* bumpVersion may fail, which noteMutation swallows
  None

ASSUME BoundsAssumption == /\ Size \subseteq Nat /\ MaxBytes \in Nat /\ MaxEntry \in Nat
                           /\ MaxData \in Nat /\ BumpFaults \in BOOLEAN

VARIABLES
  data,    \* what the tables hold: how many mutations took effect
  epoch,   \* workspaces.data_version
  acked,   \* the last mutation whose request was answered after its bump
  entries, \* ResultCache.entries
  bytes,   \* ResultCache.bytes
  reader,  \* each request in through()
  tag,     \* what each client holds: the ETag it was given, and the value under it
  owes,    \* each writer: the mutation it has run and not answered, 0 for none
  moved    \* the writers whose UPDATE of the epoch is through

vars == <<data, epoch, acked, entries, bytes, reader, tag, owes, moved>>

Version == 0 .. MaxData
Entry == [text : Text, epoch : Version, data : Version, planned : Version, bytes : Size]
Result == [text : Text, epoch : Version, data : Version, planned : Version]

(* planned: the epoch the value's computation was planned in; it is not in    *)
(* the code, and differs from epoch only for what through() re-planned.       *)
result(r) == [text |-> reader[r].text, epoch |-> reader[r].epoch,
              data |-> reader[r].data, planned |-> reader[r].planned]
Idle == [pc |-> "idle", text |-> None, epoch |-> 0, planned |-> 0, data |-> 0, floor |-> 0]

sum(S) == MapThenSumSet(LAMBDA e : e.bytes, S)

Init ==
  /\ data = 0 /\ epoch = 0 /\ acked = 0
  /\ entries = {} /\ bytes = 0
  /\ reader = [r \in Reader |-> Idle]
  /\ tag = [r \in Reader |-> None]
  /\ owes = [w \in Writer |-> 0] /\ moved = {}

-----------------------------------------------------------------------------
(* through(): plan, the lookup, the computation, the second look at the       *)
(* epoch, the plan made again when it moved, and set().                       *)
step(r, pc) == reader' = [reader EXCEPT ![r].pc = pc]

(* floor: what this request must at least show.                              *)
Plan(r, t) ==
  /\ reader[r].pc = "idle"
  /\ reader' = [reader EXCEPT ![r] = [pc |-> "planned", text |-> t, epoch |-> epoch,
                                      planned |-> epoch, data |-> 0, floor |-> acked]]
  /\ UNCHANGED <<data, epoch, acked, entries, bytes, tag, owes, moved>>

answer(r, v) == reader' = [reader EXCEPT ![r].pc = "done", ![r].data = v.data, ![r].planned = v.planned]
sameKey(r, v) == v.text = reader[r].text /\ v.epoch = reader[r].epoch

(* If-None-Match with the key of the plan: 304, the client keeps its value.  *)
NotModified(r) ==
  /\ reader[r].pc = "planned"
  /\ tag[r] # None /\ sameKey(r, tag[r])
  /\ answer(r, tag[r])
  /\ UNCHANGED <<data, epoch, acked, entries, bytes, tag, owes, moved>>

Hit(r) ==
  /\ reader[r].pc = "planned"
  /\ \E e \in entries : sameKey(r, e) /\ answer(r, e)
  /\ UNCHANGED <<data, epoch, acked, entries, bytes, tag, owes, moved>>

(* No entry, or `refresh`: the value is what the tables hold when the         *)
(* statement runs.                                                           *)
Compute(r) ==
  /\ reader[r].pc = "planned"
  /\ reader' = [reader EXCEPT ![r].pc = "computed", ![r].data = data]
  /\ UNCHANGED <<data, epoch, acked, entries, bytes, tag, owes, moved>>

Recheck(r) ==
  /\ reader[r].pc = "computed"
  /\ step(r, IF epoch = reader[r].epoch THEN "store" ELSE "replan")
  /\ UNCHANGED <<data, epoch, acked, entries, bytes, tag, owes, moved>>

Replan(r) ==
  /\ reader[r].pc = "replan"
  /\ reader' = [reader EXCEPT ![r].pc = "store", ![r].epoch = epoch]
  /\ UNCHANGED <<data, epoch, acked, entries, bytes, tag, owes, moved>>

(* What set() keeps beside the new entry: it drops the oldest, one at a time,  *)
(* until the rest fits.                                                      *)
kept(new, others) ==
  {K \in SUBSET others :
    /\ sum(K) + new.bytes <= MaxBytes
    /\ K # others => \E e \in others \ K : sum(K) + e.bytes + new.bytes > MaxBytes}

(* set() that forgets to drop the entry it overwrites.                       *)
Store_NoDrop(r, b) ==
  LET new == [text |-> reader[r].text, epoch |-> reader[r].epoch, data |-> reader[r].data,
              planned |-> reader[r].planned, bytes |-> b]
  IN
  /\ reader[r].pc = "store" /\ b <= MaxEntry /\ b <= MaxBytes
  /\ \E K \in kept(new, {e \in entries : ~sameKey(r, e)}) :
       /\ entries' = K \cup {new}
       /\ bytes' = bytes - sum({e \in entries \ K : ~sameKey(r, e)}) + b
  /\ step(r, "done")
  /\ UNCHANGED <<data, epoch, acked, tag, owes, moved>>

Store(r, b) ==
  LET new == [text |-> reader[r].text, epoch |-> reader[r].epoch, data |-> reader[r].data,
              planned |-> reader[r].planned, bytes |-> b]
  IN
  /\ reader[r].pc = "store" /\ b <= MaxEntry /\ b <= MaxBytes
  /\ \E K \in kept(new, {e \in entries : ~sameKey(r, e)}) :
       /\ entries' = K \cup {new}
       /\ bytes' = bytes - sum(entries \ K) + b
  /\ step(r, "done")
  /\ UNCHANGED <<data, epoch, acked, tag, owes, moved>>

TooBig(r, b) ==
  /\ reader[r].pc = "store" /\ (b > MaxEntry \/ b > MaxBytes)
  /\ step(r, "done")
  /\ UNCHANGED <<data, epoch, acked, entries, bytes, tag, owes, moved>>

(* The client has the answer, and its ETag.                                  *)
Answered(r) ==
  /\ reader[r].pc = "done"
  /\ tag' = [tag EXCEPT ![r] = result(r)]
  /\ reader' = [reader EXCEPT ![r] = Idle]
  /\ UNCHANGED <<data, epoch, acked, entries, bytes, owes, moved>>

-----------------------------------------------------------------------------
(* get() on an entry past its TTL, clear(), invalidateWorkspace().            *)
drop(S) ==
  /\ entries' = entries \ S
  /\ bytes' = bytes - sum(S)

Expire(e) ==
  /\ e \in entries
  /\ drop({e})
  /\ UNCHANGED <<data, epoch, acked, reader, tag, owes, moved>>

Clear ==
  /\ entries' = {} /\ bytes' = 0
  /\ UNCHANGED <<data, epoch, acked, reader, tag, owes, moved>>

-----------------------------------------------------------------------------
(* A mutation: the statement, then bumpVersion in the finally, then the       *)
(* answer.                                                                   *)
(* The mutation is answered before its epoch has moved.                      *)
Write_AnsweredFirst(w) ==
  /\ owes[w] = 0 /\ data < MaxData
  /\ data' = data + 1
  /\ owes' = [owes EXCEPT ![w] = data + 1]
  /\ acked' = data + 1
  /\ UNCHANGED <<epoch, entries, bytes, reader, tag, moved>>

Write(w) ==
  /\ owes[w] = 0 /\ data < MaxData
  /\ data' = data + 1
  /\ owes' = [owes EXCEPT ![w] = data + 1]
  /\ UNCHANGED <<epoch, acked, entries, bytes, reader, tag, moved>>

(* bumpVersion(): the UPDATE, then the listeners, which drop every entry.     *)
Bump(w) ==
  /\ owes[w] # 0 /\ w \notin moved
  /\ epoch' = epoch + 1
  /\ moved' = moved \cup {w}
  /\ UNCHANGED <<data, acked, entries, bytes, reader, tag, owes>>

settled(w) ==
  /\ owes' = [owes EXCEPT ![w] = 0]
  /\ moved' = moved \ {w}

Bumped(w) ==
  /\ w \in moved
  /\ drop(entries)
  /\ settled(w)
  /\ acked' = IF owes[w] > acked THEN owes[w] ELSE acked
  /\ UNCHANGED <<data, epoch, reader, tag>>

(* The mutation is answered as done all the same, its epoch where it was.     *)
BumpFails(w) ==
  /\ BumpFaults /\ owes[w] # 0 /\ w \notin moved
  /\ settled(w)
  /\ UNCHANGED <<data, epoch, acked, entries, bytes, reader, tag>>

-----------------------------------------------------------------------------
ReadStep(r) ==
  \/ \E t \in Text : Plan(r, t)
  \/ NotModified(r) \/ Hit(r) \/ Compute(r) \/ Recheck(r) \/ Replan(r)
  \/ \E b \in Size : Store(r, b) \/ TooBig(r, b)
  \/ Answered(r)

Next ==
  \/ \E r \in Reader : ReadStep(r)
  \/ \E w \in Writer : Write(w) \/ Bump(w) \/ Bumped(w) \/ BumpFails(w)
  \/ \E e \in entries : Expire(e)
  \/ Clear

Spec == Init /\ [][Next]_vars

-----------------------------------------------------------------------------
Places == {"idle", "planned", "computed", "replan", "store", "done"}

(* Every variable has its type, and no result is planned in an epoch later    *)
(* than the one it is kept under.                                            *)
TypeOK ==
  /\ data \in Version /\ epoch \in Version /\ acked \in Version
  /\ entries \in SUBSET Entry
  /\ bytes \in Nat
  /\ reader \in [Reader -> [pc : Places, text : Text \cup {None}, epoch : Version,
                            planned : Version, data : Version, floor : Version]]
  /\ tag \in [Reader -> Result \cup {None}]
  /\ owes \in [Writer -> Version] /\ moved \subseteq Writer
  /\ \A r \in Reader : reader[r].planned <= reader[r].epoch
  /\ \A e \in entries : e.planned <= e.epoch

(* The byte count is that of the entries there are, one per key, and never     *)
(* above cache.max_bytes: no overwrite, expiry or eviction lets it drift.     *)
BytesAreExact ==
  /\ bytes = sum(entries)
  /\ bytes <= MaxBytes
  /\ \A d, e \in entries : d.text = e.text /\ d.epoch = e.epoch => d = e

(* "Never stale after a mutation" (README.md): an answer shows every mutation  *)
(* whose own request was answered, its bump done, before this one began.      *)
NeverStale == \A r \in Reader : reader[r].pc = "done" => reader[r].data >= reader[r].floor

(* The same, of what was planned and kept in one epoch: an ETag or an entry   *)
(* whose epoch is the current one shows every mutation answered so far.       *)
CurrentWithinEpoch ==
  \A r \in Reader : reader[r].pc = "done" /\ reader[r].planned = reader[r].epoch
                      => reader[r].data >= reader[r].floor
=============================================================================
