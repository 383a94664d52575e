-------------------------- MODULE ResultCache_proofs --------------------------
(***************************************************************************)
(* Safety of ResultCache for any texts, readers and writers, any sizes and       *)
(* limits.  First comes what a sum over a finite set does, by induction in the   *)
(* form of a smallest counterexample; then the inductive invariant IInv: what    *)
(* every value in the cache, at a client or in a request must show, now and by   *)
(* the time a request compares it with its own epoch.                           *)
(*                                                                         *)
(* Safety of CloudSync, for any requests and statements, follows from orderly on: *)
(* SyncInv is what a working copy, the object, the row and the pulls and pushes  *)
(* in flight have to do with each other.                                    *)
(***************************************************************************)
EXTENDS ResultCache, CloudSync, FiniteSetTheorems, TLAPS

USE BoundsAssumption DEF BoundsAssumption

\* Where a request has a value, and where its plan still stands.
Carrying == {"computed", "replan", "store", "done"}
Planned == {"planned", "computed", "replan", "store"}

Requests == [pc : Places, text : Text \cup {None}, epoch : Version, planned : Version,
             data : Version, floor : Version]
val(p) == [text |-> p.text, epoch |-> p.epoch, data |-> p.data, planned |-> p.planned]

\* What there is of values: kept, under an ETag, or in a request.
Values == entries \cup ({tag[r] : r \in Reader} \ {None})
                  \cup {result(r) : r \in {q \in Reader : reader[q].pc \in Carrying}}

\* A value of the current epoch shows what has been answered and what is about
\* to be; one of an epoch shows what was answered before a plan made in it.
Fresh(v) ==
  /\ v.data <= data /\ v.planned <= epoch /\ v.planned <= v.epoch
  /\ v.planned = epoch => /\ v.data >= acked
                          /\ \A w \in moved : v.data >= owes[w]
  /\ \A r \in Reader :
       reader[r].pc \in Planned /\ v.planned >= reader[r].planned => v.data >= reader[r].floor

ValuesFresh == \A v \in Values : Fresh(v)

ReadersFit ==
  \A r \in Reader :
    /\ reader[r].pc # "idle" => reader[r].text \in Text
    /\ reader[r].epoch <= epoch /\ reader[r].floor <= acked
    /\ reader[r].pc = "planned" => reader[r].planned = reader[r].epoch

\* The epoch moves once per mutation: those that have not moved it are behind.
unmoved == {owes[w] : w \in Writer \ moved} \ {0}

EpochsPaid ==
  /\ epoch + Cardinality(unmoved) <= data
  /\ acked <= data
  /\ \A w \in Writer : owes[w] <= data
  /\ \A w \in moved : owes[w] # 0
  /\ \A w, x \in Writer : owes[w] = owes[x] /\ owes[w] # 0 => w = x

IInv ==
  /\ TypeOK /\ IsFiniteSet(entries) /\ BytesAreExact
  /\ ReadersFit /\ ValuesFresh /\ EpochsPaid /\ CurrentWithinEpoch

-----------------------------------------------------------------------------
pick(S) == CHOOSE x \in S : TRUE

\* f gives every subset of S its sum, the way MapThenSumSet defines it.
Sums(f, S) ==
  f = [s \in SUBSET S |-> IF s = {} THEN 0 ELSE pick(s).bytes + f[s \ {pick(s)}]]

LEMMA PickFacts == \A S : S # {} => pick(S) \in S
BY DEF pick

\* Of any subsets of a finite set one is smallest: induction over finite sets
\* as a fact about sets.
LEMMA SmallestSubset ==
  ASSUME NEW S, IsFiniteSet(S), NEW Bad \in SUBSET (SUBSET S), Bad # {}
  PROVE  \E T \in Bad : \A U \in SUBSET T : U # T => U \notin Bad
<1>1. Bad \subseteq FiniteSubsetsOf(S)
  BY FS_Subset DEF FiniteSubsetsOf
<1>2. PICK T \in Bad : \A U \in Bad : <<U, T>> \notin StrictSubsetOrdering(S)
  BY <1>1, FS_StrictSubsetOrderingWellFounded, WFMin
<1> QED
  BY <1>2 DEF StrictSubsetOrdering

LEMMA SumsAgree ==
  ASSUME NEW S, IsFiniteSet(S), NEW T \in SUBSET S, NEW f, NEW g, Sums(f, S), Sums(g, T)
  PROVE  \A s \in SUBSET T : f[s] = g[s]
<1> DEFINE Bad == {s \in SUBSET T : f[s] # g[s]}
<1>1. SUFFICES ASSUME Bad # {} PROVE FALSE
  OBVIOUS
<1>2. IsFiniteSet(T)
  BY FS_Subset
<1>3. PICK s \in Bad : \A U \in SUBSET s : U # s => U \notin Bad
  <2> HIDE DEF Bad
  <2>1. Bad \in SUBSET (SUBSET T)
    BY DEF Bad
  <2> QED
    BY <1>1, <1>2, <2>1, SmallestSubset
<1>4. s # {}
  BY <1>3 DEF Sums
<1>5. f[s \ {pick(s)}] = g[s \ {pick(s)}]
  BY <1>3, <1>4, PickFacts
<1>6. s \in SUBSET S /\ s \in SUBSET T /\ f[s] # g[s]
  BY <1>3
<1>7. f[s] = pick(s).bytes + f[s \ {pick(s)}]
  BY <1>4, <1>6 DEF Sums
<1>8. g[s] = pick(s).bytes + g[s \ {pick(s)}]
  BY <1>4, <1>6 DEF Sums
<1> QED
  BY <1>5, <1>6, <1>7, <1>8

LEMMA SumsExist == ASSUME NEW S, IsFiniteSet(S) PROVE \E f : Sums(f, S)
<1> DEFINE Bad == {T \in SUBSET S : ~ \E f : Sums(f, T)}
<1>1. SUFFICES ASSUME Bad # {} PROVE FALSE
  OBVIOUS
<1>2. PICK T \in Bad : \A U \in SUBSET T : U # T => U \notin Bad
  <2> HIDE DEF Bad
  <2>1. Bad \in SUBSET (SUBSET S)
    BY DEF Bad
  <2> QED
    BY <1>1, <2>1, SmallestSubset
<1> DEFINE g(U) == CHOOSE f : Sums(f, U)
           h == [s \in SUBSET T |-> IF s = {} THEN 0 ELSE pick(s).bytes + g(s \ {pick(s)})[s \ {pick(s)}]]
<1>3. \A U \in SUBSET T : U # T => Sums(g(U), U)
  BY <1>2
<1>4. ASSUME NEW U \in SUBSET T, U # T PROVE h[U] = g(U)[U]
  <2> HIDE DEF g
  <2>1. CASE U = {}
    BY <2>1, <1>3 DEF Sums
  <2>2. CASE U # {}
    <3> DEFINE V == U \ {pick(U)}
    <3>1. V \in SUBSET U /\ V \in SUBSET T /\ V # T /\ V # U
      BY <2>2, <1>4, PickFacts
    <3>2. Sums(g(U), U) /\ Sums(g(V), V)
      BY <3>1, <1>3, <1>4
    <3>3. IsFiniteSet(U)
      BY FS_Subset, <1>2
    <3>4. g(U)[V] = g(V)[V]
      <4> HIDE DEF V
      <4> QED BY <3>1, <3>2, <3>3, SumsAgree
    <3>5. g(U)[U] = pick(U).bytes + g(U)[V]
      BY <3>2, <2>2 DEF Sums
    <3>6. h[U] = pick(U).bytes + g(V)[V]
      BY <2>2
    <3> QED
      BY <3>4, <3>5, <3>6
  <2> QED
    BY <2>1, <2>2
<1>5. Sums(h, T)
  <2>1. ASSUME NEW s \in SUBSET T, s # {} PROVE h[s \ {pick(s)}] = g(s \ {pick(s)})[s \ {pick(s)}]
    <3> HIDE DEF h, g
    <3> QED
      BY <1>4, <2>1, PickFacts
  <2> HIDE DEF g
  <2>2. h = [s \in SUBSET T |-> IF s = {} THEN 0 ELSE pick(s).bytes + h[s \ {pick(s)}]]
    BY <2>1
  <2> HIDE DEF h
  <2> QED
    BY <2>2 DEF Sums
<1> QED
  BY <1>2, <1>5

LEMMA SumDefined == ASSUME NEW S, IsFiniteSet(S) PROVE \E f : Sums(f, S) /\ sum(S) = f[S]
<1> DEFINE f == CHOOSE f : Sums(f, S)
<1>1. Sums(f, S)
  BY SumsExist
<1>2. sum(S) = f[S]
  BY DEF Sums, sum, MapThenSumSet, MapThenFoldSet, pick
<1> QED
  BY <1>1, <1>2

-----------------------------------------------------------------------------
\* What the sum of a set is: of none, of one more, of a part and the rest.
LEMMA SumEmpty == sum({}) = 0
BY FS_EmptySet, SumDefined DEF Sums

LEMMA SumPick ==
  ASSUME NEW S, IsFiniteSet(S), S # {}
  PROVE  sum(S) = pick(S).bytes + sum(S \ {pick(S)})
<1>1. PICK f : Sums(f, S) /\ sum(S) = f[S]
  BY SumDefined
<1>2. S \ {pick(S)} \in SUBSET S /\ IsFiniteSet(S \ {pick(S)})
  BY FS_Subset
<1>3. PICK g : Sums(g, S \ {pick(S)}) /\ sum(S \ {pick(S)}) = g[S \ {pick(S)}]
  BY <1>2, SumDefined
<1>4. f[S \ {pick(S)}] = g[S \ {pick(S)}]
  BY <1>1, <1>2, <1>3, SumsAgree
<1>5. f[S] = pick(S).bytes + f[S \ {pick(S)}]
  BY <1>1 DEF Sums
<1> QED
  BY <1>1, <1>3, <1>4, <1>5

LEMMA SumNat ==
  ASSUME NEW S, IsFiniteSet(S), \A e \in S : e.bytes \in Nat
  PROVE  sum(S) \in Nat
<1> DEFINE Bad == {T \in SUBSET S : sum(T) \notin Nat}
<1>1. SUFFICES ASSUME Bad # {} PROVE FALSE
  OBVIOUS
<1>2. PICK T \in Bad : \A U \in SUBSET T : U # T => U \notin Bad
  <2>1. Bad \in SUBSET (SUBSET S)
    OBVIOUS
  <2> HIDE DEF Bad
  <2> QED
    BY <1>1, <2>1, SmallestSubset
<1>3. T # {} /\ IsFiniteSet(T)
  <2>1. T \in SUBSET S /\ sum(T) \notin Nat
    BY <1>2
  <2>2. T # {}
    BY <2>1, SumEmpty
  <2> QED
    BY <2>1, <2>2, FS_Subset
<1>4. sum(T \ {pick(T)}) \in Nat
  <2>1. pick(T) \in T
    BY <1>3, PickFacts
  <2>2. T \ {pick(T)} \in SUBSET T /\ T \ {pick(T)} # T /\ T \ {pick(T)} \in SUBSET S
    BY <1>2, <2>1
  <2> QED
    BY <1>2, <2>2
<1> QED
  BY <1>2, <1>3, <1>4, SumPick, PickFacts

LEMMA SumAdd ==
  ASSUME NEW S, IsFiniteSet(S), \A e \in S : e.bytes \in Nat,
         NEW x \in S
  PROVE  sum(S) = sum(S \ {x}) + x.bytes
<1> DEFINE Bad == {T \in SUBSET S : \E y \in T : sum(T) # sum(T \ {y}) + y.bytes}
<1>1. SUFFICES ASSUME Bad # {} PROVE FALSE
  BY FS_Subset
<1>2. PICK T \in Bad : \A U \in SUBSET T : U # T => U \notin Bad
  <2>1. Bad \in SUBSET (SUBSET S)
    OBVIOUS
  <2> HIDE DEF Bad
  <2> QED
    BY <1>1, <2>1, SmallestSubset
<1>3. PICK y \in T : sum(T) # sum(T \ {y}) + y.bytes
  BY <1>2
<1> DEFINE p == pick(T)
<1>4. p \in T /\ IsFiniteSet(T) /\ T \in SUBSET S /\ p.bytes \in Nat /\ y.bytes \in Nat
  BY <1>2, <1>3, FS_Subset, PickFacts
<1>5. sum(T) = sum(T \ {p}) + p.bytes /\ sum(T \ {p}) \in Nat
  <2>1. T \ {p} \in SUBSET S /\ IsFiniteSet(T \ {p})
    BY <1>4, FS_Subset
  <2>2. sum(T \ {p}) \in Nat
    BY <2>1, SumNat
  <2> QED
    BY <1>4, <2>2, SumPick
<1>6. p # y
  BY <1>3, <1>5
<1> HIDE DEF p
<1>7. sum(T \ {p}) = sum((T \ {p}) \ {y}) + y.bytes
  <2>1. T \ {p} \in SUBSET T /\ T \ {p} # T /\ y \in T \ {p}
    BY <1>4, <1>6
  <2> QED
    BY <1>2, <2>1
<1>8. sum(T \ {y}) = sum((T \ {y}) \ {p}) + p.bytes
  <2>1. T \ {y} \in SUBSET T /\ T \ {y} # T /\ p \in T \ {y}
    BY <1>4, <1>6
  <2> QED
    BY <1>2, <2>1
<1>9. (T \ {y}) \ {p} = (T \ {p}) \ {y} /\ sum((T \ {p}) \ {y}) \in Nat
  <2>1. (T \ {p}) \ {y} \in SUBSET S /\ IsFiniteSet((T \ {p}) \ {y})
    BY <1>4, FS_Subset
  <2> QED
    BY <2>1, SumNat
<1> QED
  BY <1>3, <1>4, <1>5, <1>7, <1>8, <1>9

LEMMA SumSplit ==
  ASSUME NEW S, IsFiniteSet(S), \A e \in S : e.bytes \in Nat, NEW K \in SUBSET S
  PROVE  sum(S) = sum(K) + sum(S \ K)
<1> DEFINE L == S \ K
           Bad == {T \in SUBSET K : sum(L \cup T) # sum(T) + sum(L)}
<1>1. SUFFICES ASSUME Bad # {} PROVE FALSE
  <2>1. K \notin Bad /\ L \cup K = S
    BY <1>1
  <2> QED
    BY <2>1
<1>2. PICK T \in Bad : \A U \in SUBSET T : U # T => U \notin Bad
  <2>1. Bad \in SUBSET (SUBSET K) /\ IsFiniteSet(K)
    BY FS_Subset
  <2> HIDE DEF Bad
  <2> QED
    BY <1>1, <2>1, SmallestSubset
<1> DEFINE p == pick(T)
           R == L \cup T
<1>3. sum(L) \in Nat
  BY FS_Subset, SumNat
<1>4. T # {}
  <2>1. sum(R) # sum(T) + sum(L)
    BY <1>2
  <2>2. T = {} => R = L
    OBVIOUS
  <2> HIDE DEF R, L
  <2> QED
    BY <1>3, <2>1, <2>2, SumEmpty
<1>5. p \in T /\ p \in R /\ R \in SUBSET S /\ T \in SUBSET S
  BY <1>2, <1>4, PickFacts
<1>6. IsFiniteSet(T) /\ IsFiniteSet(R)
  BY <1>5, FS_Subset
<1>7. sum(T) = sum(T \ {p}) + p.bytes /\ sum(R) = sum(R \ {p}) + p.bytes
  <2> HIDE DEF p, R
  <2> QED
    BY <1>5, <1>6, SumAdd
<1>8. sum(L \cup (T \ {p})) = sum(T \ {p}) + sum(L)
  BY <1>2, <1>5
<1>9. L \cup (T \ {p}) = R \ {p}
  BY <1>2, <1>5
<1>10. sum(T \ {p}) \in Nat /\ p.bytes \in Nat
  <2>1. T \ {p} \in SUBSET S /\ IsFiniteSet(T \ {p})
    BY <1>5, FS_Subset
  <2> QED
    BY <1>5, <2>1, SumNat
<1>11. sum(R) # sum(T) + sum(L)
  BY <1>2
<1> QED
  <2> HIDE DEF p, R, L, Bad
  <2>1. sum(R \ {p}) = sum(T \ {p}) + sum(L)
    BY <1>8, <1>9
  <2> QED
    BY <2>1, <1>3, <1>7, <1>10, <1>11

-----------------------------------------------------------------------------
LEMMA TypeFacts ==
  ASSUME IInv
  PROVE  /\ data \in Nat /\ epoch \in Nat /\ acked \in Nat
         /\ reader \in [Reader -> Requests] /\ tag \in [Reader -> Result \cup {None}]
         /\ owes \in [Writer -> Version] /\ moved \subseteq Writer
         /\ entries \in SUBSET Entry /\ IsFiniteSet(entries)
         /\ \A r \in Reader : result(r) = val(reader[r]) /\ reader[r].planned <= reader[r].epoch
BY DEF IInv, TypeOK, Version, Requests, result, val

\* The part of IInv that speaks of the mutations and the epoch alone.
LEMMA SameMutations ==
  ASSUME IInv, UNCHANGED <<data, epoch, acked, owes, moved>>
  PROVE  EpochsPaid' /\ data' \in Version /\ epoch' \in Version /\ acked' \in Version
         /\ owes' \in [Writer -> Version] /\ moved' \subseteq Writer
BY DEF IInv, EpochsPaid, unmoved, TypeOK

\* A fresh value stays so when a request moves, unless its plan is another one.
LEMMA FreshKept ==
  ASSUME IInv, UNCHANGED <<data, epoch, acked, owes, moved>>,
         NEW r \in Reader, NEW p \in Requests, reader' = [reader EXCEPT ![r] = p],
         p.pc \in Planned =>
           \/ reader[r].pc \in Planned /\ p.planned = reader[r].planned /\ p.floor = reader[r].floor
           \/ p.planned = epoch /\ p.floor = acked,
         NEW v, Fresh(v), v.data \in Nat, v.planned \in Nat
  PROVE  Fresh(v)'
<1>1. v.data <= data' /\ v.planned <= epoch' /\ v.planned <= v.epoch
  BY DEF Fresh
<1>2. v.planned = epoch' => v.data >= acked' /\ \A w \in moved' : v.data >= owes'[w]
  BY DEF Fresh
<1>3. ASSUME NEW q \in Reader, reader'[q].pc \in Planned, v.planned >= reader'[q].planned
      PROVE  v.data >= reader'[q].floor
  <2>1. CASE q # r
    BY <2>1, <1>3, TypeFacts DEF Fresh
  <2>2. CASE q = r
    <3>1. reader'[q] = p
      BY <2>2, TypeFacts
    <3> QED
      BY <3>1, <2>2, <1>3, TypeFacts DEF Fresh
  <2> QED
    BY <2>1, <2>2
<1> QED
  BY <1>1, <1>2, <1>3 DEF Fresh

LEMMA ValueTypes == ASSUME IInv, NEW v \in Values PROVE v.data \in Nat /\ v.planned \in Nat /\ Fresh(v)
<1>1. CASE v \in entries
  BY <1>1, TypeFacts DEF Entry, Version, IInv, ValuesFresh
<1>2. CASE v \in {tag[r] : r \in Reader} \ {None}
  BY <1>2, TypeFacts DEF Result, Version, IInv, ValuesFresh
<1>3. CASE v \in {result(r) : r \in {q \in Reader : reader[q].pc \in Carrying}}
  BY <1>3, TypeFacts DEF val, Requests, Version, IInv, ValuesFresh
<1> QED
  BY <1>1, <1>2, <1>3 DEF Values

\* A request moves and nothing else does.
LEMMA ReaderStep ==
  ASSUME IInv, UNCHANGED <<data, epoch, acked, owes, moved, entries, bytes, tag>>,
         NEW r \in Reader, NEW p \in Requests, reader' = [reader EXCEPT ![r] = p],
         p.pc \in Planned =>
           \/ reader[r].pc \in Planned /\ p.planned = reader[r].planned /\ p.floor = reader[r].floor
           \/ p.planned = epoch /\ p.floor = acked,
         p.pc # "idle" => p.text \in Text,
         p.epoch <= epoch, p.floor <= acked, p.planned <= p.epoch,
         p.pc = "planned" => p.planned = p.epoch,
         p.pc \in Carrying => Fresh(val(p)),
         p.pc = "done" /\ p.planned = p.epoch => p.data >= p.floor
  PROVE  IInv'
<1>1. \A q \in Reader : reader'[q] = IF q = r THEN p ELSE reader[q]
  BY TypeFacts
<1>2. reader' \in [Reader -> Requests]
  BY TypeFacts
<1>3. TypeOK'
  BY <1>1, <1>2, SameMutations DEF IInv, TypeOK, Requests
<1>4. ReadersFit' /\ CurrentWithinEpoch'
  BY <1>1 DEF IInv, ReadersFit, CurrentWithinEpoch
<1>5. ASSUME NEW v \in Values' PROVE Fresh(v)'
  <2>1. CASE v \in Values
    BY <2>1, ValueTypes, FreshKept
  <2>2. CASE v = val(p) /\ p.pc \in Carrying
    <3>1. v.data \in Nat /\ v.planned \in Nat /\ Fresh(v)
      BY <2>2 DEF val, Requests, Version
    <3> QED
      BY <3>1, FreshKept
  <2>3. ASSUME NEW q \in Reader, reader'[q].pc \in Carrying, v = result(q)'
        PROVE  v \in Values \/ (v = val(p) /\ p.pc \in Carrying)
    <3>1. CASE q = r
      BY <3>1, <2>3, <1>1 DEF result, val
    <3>2. CASE q # r
      <4>1. v = result(q) /\ reader[q].pc \in Carrying
        BY <3>2, <2>3, <1>1 DEF result
      <4> QED
        BY <4>1 DEF Values
    <3> QED
      BY <3>1, <3>2
  <2>4. v \in entries \/ v \in {tag[q] : q \in Reader} \ {None} \/ \E q \in Reader : reader'[q].pc \in Carrying /\ v = result(q)'
    BY DEF Values
  <2> QED
    <3>1. v \in Values \/ (v = val(p) /\ p.pc \in Carrying)
      BY <2>3, <2>4 DEF Values
    <3> QED
      BY <3>1, <2>1, <2>2
<1>6. IsFiniteSet(entries)' /\ BytesAreExact'
  BY DEF IInv, BytesAreExact
<1> QED
  BY <1>3, <1>4, <1>5, <1>6, SameMutations DEF IInv, ValuesFresh

\* What a request has in hand, and what it learns of the epoch, at each place.
LEMMA RequestFacts ==
  ASSUME IInv, NEW r \in Reader
  PROVE  /\ reader[r] \in Requests /\ reader[r].planned <= reader[r].epoch
         /\ reader[r].epoch <= epoch /\ reader[r].floor <= acked
         /\ reader[r].pc # "idle" => reader[r].text \in Text
         /\ reader[r].pc = "planned" => reader[r].planned = reader[r].epoch
         /\ reader[r].pc \in Carrying => val(reader[r]) \in Values /\ Fresh(val(reader[r]))
<1>1. reader[r].pc \in Carrying => val(reader[r]) \in Values
  BY TypeFacts DEF Values
<1> QED
  BY <1>1, TypeFacts DEF IInv, ReadersFit, ValuesFresh

LEMMA PlanStep == ASSUME IInv, NEW r \in Reader, NEW t \in Text, Plan(r, t) PROVE IInv'
<1> DEFINE p == [pc |-> "planned", text |-> t, epoch |-> epoch,
                 planned |-> epoch, data |-> 0, floor |-> acked]
<1>1. p \in Requests
  BY DEF Requests, Places, Version, IInv, TypeOK
<1>2. /\ p.pc = "planned" /\ p.text = t /\ p.epoch = epoch /\ p.planned = epoch /\ p.floor = acked
      /\ reader' = [reader EXCEPT ![r] = p]
  BY DEF Plan
<1> QED
  <2> HIDE DEF p
  <2> QED
    <3>1. p.epoch <= epoch /\ p.floor <= acked /\ p.planned <= p.epoch
      BY <1>2, TypeFacts
    <3> QED
      BY <1>1, <1>2, <3>1, ReaderStep DEF Plan, Carrying

\* An answer that is somebody else's value, under the key of the plan.
LEMMA AnswerStep ==
  ASSUME IInv, NEW r \in Reader, reader[r].pc = "planned", NEW v \in Values,
         v.data \in Version, v.planned \in Version, v.planned <= v.epoch,
         sameKey(r, v), answer(r, v), UNCHANGED <<data, epoch, acked, entries, bytes, tag, owes, moved>>
  PROVE  IInv'
<1> DEFINE p == [reader[r] EXCEPT !.pc = "done", !.data = v.data, !.planned = v.planned]
<1>1. p \in Requests
  BY RequestFacts DEF Requests, Places
<1>2. reader' = [reader EXCEPT ![r] = p]
  BY RequestFacts, TypeFacts DEF answer, Requests
<1>3. /\ p.pc = "done" /\ p.text = reader[r].text /\ p.epoch = reader[r].epoch
      /\ p.floor = reader[r].floor /\ p.data = v.data /\ p.planned = v.planned
  BY RequestFacts DEF Requests
<1>4. Fresh(v)
  BY ValueTypes
<1>5. p.planned <= p.epoch
  BY <1>3 DEF sameKey
<1>6. Fresh(val(p))
  <2> HIDE DEF p
  <2> QED
    BY <1>3, <1>4, <1>5 DEF Fresh, val
<1>7. p.planned = p.epoch => p.data >= p.floor
  <2> HIDE DEF p
  <2> QED
    BY <1>3, <1>4, RequestFacts DEF Fresh, Planned, Requests, Version
<1> QED
  <2> HIDE DEF p
  <2> QED
    BY <1>1, <1>2, <1>3, <1>5, <1>6, <1>7, ReaderStep, RequestFacts DEF Planned

LEMMA NotModifiedStep == ASSUME IInv, NEW r \in Reader, NotModified(r) PROVE IInv'
<1>1. tag[r] \in Result /\ tag[r] \in Values
  BY TypeFacts DEF NotModified, Values
<1>2. tag[r].planned <= tag[r].epoch
  BY <1>1, ValueTypes DEF Fresh
<1> QED
  BY <1>1, <1>2, AnswerStep DEF NotModified, Result

LEMMA HitStep == ASSUME IInv, NEW r \in Reader, Hit(r) PROVE IInv'
<1>1. PICK e \in entries : sameKey(r, e) /\ answer(r, e)
  BY DEF Hit
<1>2. e \in Values /\ e \in Entry /\ e.planned <= e.epoch
  BY TypeFacts DEF Values, IInv, TypeOK
<1> QED
  BY <1>1, <1>2, AnswerStep DEF Hit, Entry

LEMMA ComputeStep == ASSUME IInv, NEW r \in Reader, Compute(r) PROVE IInv'
<1> DEFINE p == [reader[r] EXCEPT !.pc = "computed", !.data = data]
<1>1. p \in Requests /\ reader' = [reader EXCEPT ![r] = p]
  BY RequestFacts, TypeFacts DEF Compute, Requests, Places, IInv, TypeOK
<1>2. /\ p.pc = "computed" /\ p.text = reader[r].text /\ p.epoch = reader[r].epoch
      /\ p.floor = reader[r].floor /\ p.data = data /\ p.planned = reader[r].planned
  BY RequestFacts DEF Requests
<1>3. \A q \in Reader : reader[q].floor \in Nat /\ data >= reader[q].floor
  BY RequestFacts, TypeFacts DEF Requests, Version, IInv, EpochsPaid
<1>4. Fresh(val(p))
  BY <1>2, <1>3, RequestFacts, TypeFacts DEF Fresh, val, IInv, EpochsPaid, Requests, Version
<1> QED
  <2> HIDE DEF p
  <2> QED
    BY <1>1, <1>2, <1>4, ReaderStep, RequestFacts DEF Compute, Planned

\* A request that goes on with the value it has, under the same key or that of
\* the epoch now.
LEMMA CarryStep ==
  ASSUME IInv, NEW r \in Reader, reader[r].pc \in {"computed", "replan", "store"},
         NEW pc \in Carrying, NEW k \in {reader[r].epoch, epoch},
         reader' = [reader EXCEPT ![r].pc = pc, ![r].epoch = k],
         UNCHANGED <<data, epoch, acked, entries, bytes, tag, owes, moved>>
  PROVE  IInv'
<1> DEFINE p == [reader[r] EXCEPT !.pc = pc, !.epoch = k]
<1>1. p \in Requests /\ reader' = [reader EXCEPT ![r] = p]
  BY RequestFacts, TypeFacts DEF Requests, Places, Carrying, IInv, TypeOK
<1>2. /\ p.pc = pc /\ p.text = reader[r].text /\ p.epoch = k
      /\ p.floor = reader[r].floor /\ p.data = reader[r].data /\ p.planned = reader[r].planned
  BY RequestFacts DEF Requests
<1>3. Fresh(val(reader[r]))
  BY RequestFacts DEF Carrying
<1>4. p.planned <= k /\ k <= epoch
  BY <1>2, RequestFacts, TypeFacts DEF Requests, Version
<1>5. reader[r].data >= reader[r].floor
  <2>1. reader[r].planned \in Nat /\ reader[r].planned >= reader[r].planned
    BY RequestFacts DEF Requests, Version
  <2>2. val(reader[r]).planned = reader[r].planned /\ val(reader[r]).data = reader[r].data
    BY DEF val
  <2> QED
    BY <1>3, <2>1, <2>2 DEF Fresh, Planned
<1>6. Fresh(val(p))
  <2> HIDE DEF p
  <2> QED
    BY <1>2, <1>3, <1>4 DEF Fresh, val
<1> QED
  <2> HIDE DEF p
  <2> QED
    BY <1>1, <1>2, <1>4, <1>5, <1>6, ReaderStep, RequestFacts DEF Planned, Carrying

LEMMA ThroughStep ==
  ASSUME IInv, NEW r \in Reader, Recheck(r) \/ Replan(r) \/ \E b \in Size : TooBig(r, b)
  PROVE  IInv'
<1>1. reader \in [Reader -> Requests]
  BY TypeFacts
<1>2. \A pc \in Carrying : step(r, pc) => reader' = [reader EXCEPT ![r].pc = pc, ![r].epoch = reader[r].epoch]
  BY <1>1 DEF step, Requests
<1>3. CASE Recheck(r)
  BY <1>2, <1>3, CarryStep DEF Recheck, Carrying
<1>4. CASE Replan(r)
  BY <1>4, CarryStep DEF Replan, Carrying
<1>5. CASE \E b \in Size : TooBig(r, b)
  BY <1>2, <1>5, CarryStep DEF TooBig, Carrying
<1> QED
  BY <1>3, <1>4, <1>5

-----------------------------------------------------------------------------
\* A request that is through: its value may be kept, or given to the client.
LEMMA ThroughEffect ==
  ASSUME IInv, UNCHANGED <<data, epoch, acked, owes, moved>>,
         NEW r \in Reader, NEW p \in Requests, reader' = [reader EXCEPT ![r] = p], p.pc \notin Planned,
         entries' \in SUBSET Entry, tag' \in [Reader -> Result \cup {None}],
         \A v \in Values' : \E u \in Values : v.data = u.data /\ v.planned = u.planned /\ v.epoch = u.epoch
  PROVE  /\ ValuesFresh'
         /\ \A e \in entries' : e.planned <= e.epoch
<1>1. ASSUME NEW v \in Values' PROVE Fresh(v)' /\ v.planned <= v.epoch
  <2>1. PICK u \in Values : v.data = u.data /\ v.planned = u.planned /\ v.epoch = u.epoch
    OBVIOUS
  <2>2. Fresh(u) /\ Fresh(u)'
    BY ValueTypes, FreshKept
  <2> QED
    BY <2>1, <2>2 DEF Fresh
<1>2. entries' \subseteq Values'
  BY DEF Values
<1> QED
  BY <1>1, <1>2 DEF ValuesFresh

LEMMA StoreBytes ==
  ASSUME IInv, NEW new \in Entry,
         NEW others \in SUBSET entries, \A e \in others : ~(e.text = new.text /\ e.epoch = new.epoch),
         NEW K \in kept(new, others), entries' = K \cup {new}, bytes' = bytes - sum(entries \ K) + new.bytes
  PROVE  BytesAreExact' /\ IsFiniteSet(entries') /\ bytes' \in Nat
<1>1. K \in SUBSET entries /\ K \in SUBSET others /\ sum(K) + new.bytes <= MaxBytes
  BY DEF kept
<1>2. IsFiniteSet(entries) /\ (\A e \in entries : e.bytes \in Nat) /\ new.bytes \in Nat
  BY TypeFacts DEF Entry
<1>3. IsFiniteSet(K) /\ IsFiniteSet(K \cup {new}) /\ IsFiniteSet(entries \ K)
  BY <1>1, <1>2, FS_Subset, FS_AddElement
<1>4. sum(entries) = sum(K) + sum(entries \ K)
  BY <1>1, <1>2, SumSplit
<1>5. sum(K \cup {new}) = sum(K) + new.bytes
  <2>1. new \notin K /\ (K \cup {new}) \ {new} = K
    BY <1>1
  <2> QED
    BY <2>1, <1>1, <1>2, <1>3, SumAdd
<1>6. sum(K) \in Nat /\ sum(entries \ K) \in Nat
  BY <1>1, <1>2, <1>3, SumNat
<1>7. bytes = sum(entries)
  BY DEF IInv, BytesAreExact
<1>8. bytes' = sum(K \cup {new})
  BY <1>2, <1>4, <1>5, <1>6, <1>7
<1>9. \A d, e \in K \cup {new} : d.text = e.text /\ d.epoch = e.epoch => d = e
  BY <1>1 DEF IInv, BytesAreExact
<1> QED
  BY <1>1, <1>2, <1>3, <1>5, <1>6, <1>8, <1>9 DEF BytesAreExact

LEMMA StoreStep == ASSUME IInv, NEW r \in Reader, NEW b \in Size, Store(r, b) PROVE IInv'
<1> DEFINE new == [text |-> reader[r].text, epoch |-> reader[r].epoch, data |-> reader[r].data,
                   planned |-> reader[r].planned, bytes |-> b]
           others == {e \in entries : ~sameKey(r, e)}
           p == [reader[r] EXCEPT !.pc = "done"]
<1>1. PICK K \in kept(new, others) : entries' = K \cup {new} /\ bytes' = bytes - sum(entries \ K) + b
  BY DEF Store
<1>2. new \in Entry /\ new.bytes = b /\ val(reader[r]) \in Values
  BY RequestFacts DEF Store, Requests, Entry, Carrying
<1>3. p \in Requests /\ reader' = [reader EXCEPT ![r] = p] /\ \A q \in Reader : reader'[q] = IF q = r THEN p ELSE reader[q]
  BY RequestFacts, TypeFacts DEF Store, step, Requests, Places
<1>4. /\ p.pc = "done" /\ p.text = reader[r].text /\ p.epoch = reader[r].epoch
      /\ p.floor = reader[r].floor /\ p.data = reader[r].data /\ p.planned = reader[r].planned
  BY RequestFacts DEF Requests
<1>5. BytesAreExact' /\ IsFiniteSet(entries') /\ bytes' \in Nat
  <2>1. \A e \in others : ~(e.text = new.text /\ e.epoch = new.epoch)
    BY DEF sameKey
  <2> HIDE DEF new, others
  <2>2. others \in SUBSET entries
    BY DEF others
  <2> QED
    BY <1>1, <1>2, <2>1, <2>2, StoreBytes
<1>6. entries' \in SUBSET Entry
  <2> HIDE DEF new
  <2> QED
    BY <1>1, <1>2, TypeFacts DEF kept
<1>7. ASSUME NEW v \in Values' PROVE v \in Values \/ v = new
  <2>1. CASE v \in entries'
    <3> HIDE DEF new
    <3> QED
      BY <2>1, <1>1 DEF kept, Values
  <2>2. CASE v \in {tag[q] : q \in Reader} \ {None}
    BY <2>2 DEF Values
  <2>3. ASSUME NEW q \in Reader, reader'[q].pc \in Carrying, v = result(q)'
        PROVE  v \in Values
    <3>1. v = result(q) /\ reader[q].pc \in Carrying
      <4> HIDE DEF p
      <4> QED
        BY <2>3, <1>3, <1>4 DEF result, Store, Carrying
    <3> QED
      BY <3>1 DEF Values
  <2>4. tag' = tag
    BY DEF Store
  <2> QED
    BY <2>1, <2>2, <2>3, <2>4 DEF Values
<1>8. \A v \in Values' : \E u \in Values : v.data = u.data /\ v.planned = u.planned /\ v.epoch = u.epoch
  <2>1. /\ new.data = val(reader[r]).data /\ new.planned = val(reader[r]).planned
        /\ new.epoch = val(reader[r]).epoch
    BY DEF val
  <2> HIDE DEF new
  <2> QED
    BY <1>7, <1>2, <2>1
<1>9. ValuesFresh' /\ \A e \in entries' : e.planned <= e.epoch
  <2> HIDE DEF p, new
  <2> QED
    BY <1>3, <1>4, <1>6, <1>8, ThroughEffect, TypeFacts DEF Store, Planned
<1>10. reader[r].data >= reader[r].floor
  <2>1. reader[r].planned \in Nat /\ reader[r].planned >= reader[r].planned
    BY RequestFacts DEF Requests, Version
  <2>2. Fresh(val(reader[r])) /\ val(reader[r]).planned = reader[r].planned /\ val(reader[r]).data = reader[r].data
    BY RequestFacts DEF val, Store, Carrying
  <2> QED
    BY <2>1, <2>2 DEF Fresh, Planned, Store
<1>11. ReadersFit' /\ CurrentWithinEpoch'
  <2> HIDE DEF p
  <2> QED
    BY <1>3, <1>4, <1>10, RequestFacts DEF IInv, ReadersFit, CurrentWithinEpoch, Store
<1>12. TypeOK'
  <2>1. reader' \in [Reader -> Requests] /\ \A q \in Reader : reader'[q].planned <= reader'[q].epoch
    <3> HIDE DEF p
    <3> QED
      BY <1>3, <1>4, RequestFacts, TypeFacts
  <2> QED
    BY <2>1, <1>5, <1>6, <1>9, SameMutations, TypeFacts DEF Store, TypeOK, Requests
<1> QED
  BY <1>5, <1>9, <1>11, <1>12, SameMutations DEF IInv, Store

LEMMA AnsweredStep == ASSUME IInv, NEW r \in Reader, Answered(r) PROVE IInv'
<1>1. Idle \in Requests /\ Idle.pc = "idle" /\ Idle.planned = 0 /\ Idle.epoch = 0 /\ Idle.floor = 0
  BY DEF Idle, Requests, Places, Version
<1>2. reader' = [reader EXCEPT ![r] = Idle] /\ \A q \in Reader : reader'[q] = IF q = r THEN Idle ELSE reader[q]
  BY TypeFacts DEF Answered
<1>3. result(r) \in Values /\ result(r) \in Result
  BY RequestFacts, TypeFacts DEF Answered, Carrying, val, Requests, Result
<1>4. tag' \in [Reader -> Result \cup {None}] /\ \A q \in Reader : tag'[q] = IF q = r THEN result(r) ELSE tag[q]
  BY <1>3, TypeFacts DEF Answered
<1>5. ASSUME NEW v \in Values' PROVE v \in Values
  <2>1. CASE v \in entries
    BY <2>1 DEF Values
  <2>2. CASE v \in {tag'[q] : q \in Reader} \ {None}
    BY <2>2, <1>3, <1>4 DEF Values
  <2>3. ASSUME NEW q \in Reader, reader'[q].pc \in Carrying, v = result(q)'
        PROVE  v \in Values
    <3>1. v = result(q) /\ reader[q].pc \in Carrying
      BY <2>3, <1>1, <1>2 DEF result, Carrying
    <3> QED
      BY <3>1 DEF Values
  <2>4. entries' = entries
    BY DEF Answered
  <2> QED
    BY <2>1, <2>2, <2>3, <2>4 DEF Values
<1>6. ValuesFresh' /\ \A e \in entries' : e.planned <= e.epoch
  BY <1>1, <1>2, <1>4, <1>5, ThroughEffect, TypeFacts DEF Answered, Planned
<1>7. ReadersFit' /\ CurrentWithinEpoch'
  BY <1>1, <1>2, RequestFacts, TypeFacts DEF IInv, ReadersFit, CurrentWithinEpoch, Answered
<1>8. TypeOK'
  <2>1. reader' \in [Reader -> Requests] /\ \A q \in Reader : reader'[q].planned <= reader'[q].epoch
    BY <1>1, <1>2, RequestFacts, TypeFacts
  <2> QED
    BY <2>1, <1>4, <1>6, SameMutations, TypeFacts DEF Answered, TypeOK, Requests, IInv
<1> QED
  BY <1>6, <1>7, <1>8, SameMutations DEF IInv, Answered, BytesAreExact

-----------------------------------------------------------------------------
\* Entries go, alone or with the answer of a mutation.
LEMMA DropBytes ==
  ASSUME IInv, NEW S \in SUBSET entries, drop(S)
  PROVE  /\ entries' \in SUBSET entries /\ BytesAreExact' /\ IsFiniteSet(entries')
         /\ bytes' \in Nat
<1>1. IsFiniteSet(entries) /\ (\A e \in entries : e.bytes \in Nat) /\ bytes = sum(entries) /\ bytes <= MaxBytes
  BY TypeFacts DEF Entry, IInv, BytesAreExact
<1>2. IsFiniteSet(S) /\ IsFiniteSet(entries \ S) /\ entries \ S \in SUBSET entries
  BY <1>1, FS_Subset
<1>3. sum(entries) = sum(S) + sum(entries \ S)
  BY <1>1, SumSplit
<1>4. sum(S) \in Nat /\ sum(entries \ S) \in Nat
  BY <1>1, <1>2, SumNat
<1>5. bytes' = sum(entries \ S) /\ bytes' <= MaxBytes /\ bytes' \in Nat
  BY <1>1, <1>3, <1>4 DEF drop
<1> QED
  BY <1>2, <1>5 DEF drop, IInv, BytesAreExact

LEMMA ClearDrops == ASSUME IInv, entries' = {}, bytes' = 0 PROVE drop(entries)
<1>1. sum(entries) = bytes /\ bytes \in Nat
  BY DEF IInv, BytesAreExact, TypeOK
<1> QED
  BY <1>1 DEF drop

LEMMA FewerValues ==
  ASSUME entries' \in SUBSET entries, UNCHANGED <<reader, tag>>
  PROVE  Values' \subseteq Values
BY DEF Values, result

LEMMA DropStep ==
  ASSUME IInv, NEW S \in SUBSET entries, drop(S), UNCHANGED <<data, epoch, acked, reader, tag, owes, moved>>
  PROVE  IInv'
<1>1. entries' \in SUBSET entries /\ BytesAreExact' /\ IsFiniteSet(entries') /\ bytes' \in Nat
  BY DropBytes
<1>2. ValuesFresh'
  BY <1>1, FewerValues DEF IInv, ValuesFresh, Fresh
<1>3. TypeOK'
  BY <1>1 DEF IInv, TypeOK
<1> QED
  BY <1>1, <1>2, <1>3, SameMutations DEF IInv, ReadersFit, CurrentWithinEpoch

-----------------------------------------------------------------------------
\* The mutations.
LEMMA MutationFacts ==
  ASSUME IInv
  PROVE  /\ IsFiniteSet(unmoved) /\ Cardinality(unmoved) \in Nat /\ epoch + Cardinality(unmoved) <= data
         /\ data <= MaxData /\ acked <= data
         /\ \A w \in Writer : owes[w] \in Nat /\ owes[w] <= data
<1>1. unmoved \in SUBSET Nat /\ \A n \in unmoved : n <= data
  BY TypeFacts DEF unmoved, Version, IInv, EpochsPaid
<1>2. IsFiniteSet(unmoved) /\ Cardinality(unmoved) \in Nat
  BY <1>1, TypeFacts, FS_BoundedSetOfNaturals, FS_CardinalityType
<1> QED
  BY <1>2, TypeFacts DEF IInv, EpochsPaid, TypeOK, Version

LEMMA WriteStep == ASSUME IInv, NEW w \in Writer, Write(w) PROVE IInv'
<1>1. w \notin moved /\ moved' = moved /\ epoch' = epoch /\ acked' = acked
  BY DEF Write, IInv, EpochsPaid
<1>2. \A x \in Writer : owes'[x] = IF x = w THEN data + 1 ELSE owes[x]
  BY TypeFacts DEF Write
<1>3. data' = data + 1 /\ data' \in Version /\ owes' \in [Writer -> Version]
  BY <1>2, TypeFacts DEF Write, Version
<1>4. unmoved' = unmoved \cup {data + 1}
  BY <1>1, <1>2, <1>3, TypeFacts DEF unmoved, Write
<1>5. epoch' + Cardinality(unmoved') <= data'
  <2>1. Cardinality(unmoved \cup {data + 1}) <= Cardinality(unmoved) + 1
    <3>1. IsFiniteSet(unmoved) /\ Cardinality(unmoved) \in Nat
      BY MutationFacts
    <3>2. Cardinality(unmoved \cup {data + 1})
            = IF data + 1 \in unmoved THEN Cardinality(unmoved) ELSE Cardinality(unmoved) + 1
      BY <3>1, FS_AddElement
    <3> QED
      BY <3>1, <3>2
  <2>2. Cardinality(unmoved \cup {data + 1}) \in Nat
    BY MutationFacts, FS_AddElement, FS_CardinalityType
  <2>3. epoch + Cardinality(unmoved \cup {data + 1}) <= data + 1
    BY <2>1, <2>2, MutationFacts, TypeFacts
  <2> QED
    BY <2>3, <1>1, <1>3, <1>4
<1>6. EpochsPaid'
  BY <1>1, <1>2, <1>3, <1>5, MutationFacts, TypeFacts DEF EpochsPaid, IInv
<1>7. ASSUME NEW v \in Values PROVE Fresh(v)'
  <2>1. \A x \in moved : x \in Writer /\ owes'[x] = owes[x]
    BY <1>1, <1>2, TypeFacts
  <2> QED
    BY <2>1, <1>1, <1>3, ValueTypes, TypeFacts DEF Fresh, Write
<1>8. ValuesFresh'
  BY <1>7, FewerValues DEF Write, ValuesFresh
<1>9. TypeOK'
  BY <1>1, <1>3 DEF Write, IInv, TypeOK
<1> QED
  BY <1>6, <1>8, <1>9 DEF Write, IInv, ReadersFit, CurrentWithinEpoch, BytesAreExact

LEMMA BumpStep == ASSUME IInv, NEW w \in Writer, Bump(w) PROVE IInv'
<1>1. unmoved' = unmoved \ {owes[w]} /\ owes[w] \in unmoved
  BY TypeFacts DEF Bump, unmoved, IInv, EpochsPaid
<1>2. epoch' + Cardinality(unmoved') <= data
  <2>1. Cardinality(unmoved \ {owes[w]}) = Cardinality(unmoved) - 1
    BY <1>1, MutationFacts, FS_RemoveElement
  <2>2. epoch + 1 + Cardinality(unmoved \ {owes[w]}) <= data
    BY <2>1, MutationFacts, TypeFacts
  <2> QED
    BY <2>2, <1>1 DEF Bump
<1>3. epoch' = epoch + 1 /\ epoch' \in Version
  <2>1. Cardinality(unmoved') \in Nat
    BY <1>1, MutationFacts, FS_RemoveElement, FS_CardinalityType
  <2> QED
    BY <1>2, <2>1, MutationFacts, TypeFacts DEF Bump, Version
<1>4. EpochsPaid'
  BY <1>2 DEF Bump, EpochsPaid, IInv
<1>5. ASSUME NEW v \in Values PROVE Fresh(v)'
  BY <1>3, ValueTypes, TypeFacts DEF Fresh, Bump
<1>6. ValuesFresh'
  BY <1>5, FewerValues DEF Bump, ValuesFresh
<1>7. TypeOK'
  BY <1>3 DEF Bump, IInv, TypeOK
<1>8. ReadersFit'
  BY <1>3, RequestFacts, TypeFacts DEF ReadersFit, Bump, Requests, Version, IInv
<1> QED
  BY <1>4, <1>6, <1>7, <1>8 DEF Bump, IInv, CurrentWithinEpoch, BytesAreExact

\* What the mutations that have not moved the epoch are, once w is answered.
LEMMA SettledFacts ==
  ASSUME IInv, NEW w \in Writer, settled(w)
  PROVE  /\ unmoved' \in SUBSET unmoved /\ owes' \in [Writer -> Version] /\ moved' \subseteq moved
         /\ \A x \in Writer : owes'[x] = IF x = w THEN 0 ELSE owes[x]
         /\ w \notin moved'
         /\ epoch + Cardinality(unmoved') <= data
<1>1. \A x \in Writer : owes'[x] = IF x = w THEN 0 ELSE owes[x]
  BY TypeFacts DEF settled
<1>2. unmoved' \in SUBSET unmoved
  BY <1>1, TypeFacts DEF settled, unmoved
<1>3. Cardinality(unmoved') <= Cardinality(unmoved) /\ Cardinality(unmoved') \in Nat
  BY <1>2, MutationFacts, FS_Subset, FS_CardinalityType
<1> QED
  BY <1>1, <1>2, <1>3, MutationFacts, TypeFacts DEF settled, Version

LEMMA BumpedStep == ASSUME IInv, NEW w \in Writer, Bumped(w) PROVE IInv'
<1>1. entries' \in SUBSET entries /\ BytesAreExact' /\ IsFiniteSet(entries') /\ bytes' \in Nat
  BY DropBytes DEF Bumped
<1>2. acked' \in {acked, owes[w]} /\ acked' >= acked /\ acked' <= data /\ acked' \in Version
  BY MutationFacts, TypeFacts DEF Bumped, Version, IInv, TypeOK
<1>3. EpochsPaid'
  BY <1>2, SettledFacts, TypeFacts DEF Bumped, EpochsPaid, IInv
<1>4. ASSUME NEW v \in Values PROVE Fresh(v)'
  <2>1. \A x \in moved' : x \in moved /\ owes'[x] = owes[x]
    BY SettledFacts, TypeFacts DEF Bumped
  <2> QED
    BY <2>1, <1>2, ValueTypes, TypeFacts DEF Fresh, Bumped
<1>5. ValuesFresh'
  BY <1>1, <1>4, FewerValues DEF Bumped, ValuesFresh
<1>6. TypeOK'
  BY <1>1, <1>2, SettledFacts DEF Bumped, IInv, TypeOK
<1>7. ReadersFit'
  BY <1>2, RequestFacts, TypeFacts DEF ReadersFit, Bumped, Requests, Version, IInv
<1> QED
  BY <1>1, <1>3, <1>5, <1>6, <1>7 DEF Bumped, IInv, CurrentWithinEpoch

LEMMA BumpFailsStep == ASSUME IInv, NEW w \in Writer, BumpFails(w) PROVE IInv'
<1>1. EpochsPaid'
  BY SettledFacts, TypeFacts DEF BumpFails, EpochsPaid, IInv
<1>2. ASSUME NEW v \in Values PROVE Fresh(v)'
  <2>1. \A x \in moved' : x \in moved /\ owes'[x] = owes[x]
    BY SettledFacts, TypeFacts DEF BumpFails
  <2> QED
    BY <2>1, ValueTypes DEF Fresh, BumpFails
<1>3. ValuesFresh'
  BY <1>2, FewerValues DEF BumpFails, ValuesFresh
<1>4. TypeOK'
  BY SettledFacts DEF BumpFails, IInv, TypeOK
<1> QED
  BY <1>1, <1>3, <1>4 DEF BumpFails, IInv, ReadersFit, CurrentWithinEpoch, BytesAreExact

-----------------------------------------------------------------------------
LEMMA InitIInv == Init => IInv
<1> SUFFICES ASSUME Init PROVE IInv
  OBVIOUS
<1>1. Idle \in Requests /\ Idle.pc = "idle" /\ Idle.planned = 0 /\ Idle.epoch = 0 /\ Idle.floor = 0
  BY DEF Idle, Requests, Places, Version
<1>2. unmoved = {} /\ IsFiniteSet({}) /\ Cardinality({}) = 0
  BY FS_EmptySet DEF Init, unmoved
<1>3. Values = {}
  BY <1>1 DEF Init, Values, Carrying
<1>4. TypeOK
  BY <1>1 DEF Init, TypeOK, Version, Requests
<1>5. EpochsPaid
  BY <1>2 DEF Init, EpochsPaid, Version
<1>6. BytesAreExact
  BY SumEmpty DEF Init, BytesAreExact
<1>7. ReadersFit /\ CurrentWithinEpoch
  BY <1>1 DEF Init, ReadersFit, CurrentWithinEpoch
<1> QED
  BY <1>2, <1>3, <1>4, <1>5, <1>6, <1>7 DEF Init, IInv, ValuesFresh

LEMMA StutterStep == ASSUME IInv, UNCHANGED vars PROVE IInv'
<1>1. ValuesFresh'
  BY FewerValues DEF vars, IInv, ValuesFresh, Fresh
<1> QED
  BY <1>1, SameMutations DEF vars, IInv, TypeOK, ReadersFit, CurrentWithinEpoch, BytesAreExact

LEMMA NextIInv == IInv /\ [Next]_vars => IInv'
<1> SUFFICES ASSUME IInv, [Next]_vars PROVE IInv'
  OBVIOUS
<1>1. ASSUME NEW r \in Reader, ReadStep(r) PROVE IInv'
  BY <1>1, PlanStep, NotModifiedStep, HitStep, ComputeStep, ThroughStep, StoreStep, AnsweredStep DEF ReadStep
<1>2. ASSUME NEW w \in Writer, Write(w) \/ Bump(w) \/ Bumped(w) \/ BumpFails(w) PROVE IInv'
  BY <1>2, WriteStep, BumpStep, BumpedStep, BumpFailsStep
<1>3. ASSUME NEW e \in entries, Expire(e) PROVE IInv'
  BY <1>3, DropStep DEF Expire
<1>4. CASE Clear
  BY <1>4, ClearDrops, DropStep DEF Clear
<1>5. CASE UNCHANGED vars
  BY <1>5, StutterStep
<1> QED
  BY <1>1, <1>2, <1>3, <1>4, <1>5 DEF Next

LEMMA Invariant == Spec => []IInv
BY InitIInv, NextIInv, PTL DEF Spec

\* Every variable keeps its type; that the epoch stays within the mutations
\* rests on each of them moving it once at most (bumpVersion in the finally of
\* QueryService.run).
THEOREM TypeCorrect == Spec => []TypeOK
<1>1. IInv => TypeOK
  BY DEF IInv
<1> QED
  BY <1>1, Invariant, PTL

\* The byte count is that of the entries, one per key, within max_bytes, for any
\* sizes of results and after any overwrite, expiry, eviction or invalidation
\* (ResultCache.set, drop, clear).
THEOREM BytesStayExact == Spec => []BytesAreExact
<1>1. IInv => BytesAreExact
  BY DEF IInv
<1> QED
  BY <1>1, Invariant, PTL

\* What was planned and kept in one epoch shows every mutation answered before
\* the request that gets it began, for any number of readers and writers, whose
\* mutations overlap and whose bumps may fail (ResultCache.through).
THEOREM NeverOlderWithinEpoch == Spec => []CurrentWithinEpoch
<1>1. IInv => CurrentWithinEpoch
  BY DEF IInv
<1> QED
  BY <1>1, Invariant, PTL

-----------------------------------------------------------------------------
(* CloudSync.  Known and AllFull are about every instance, the second until a    *)
(* pull replaces a file that a push is uploading; Orderly holds until a request,  *)
(* an eviction or the shutdown has met another request and, where another       *)
(* instance writes too, until a push has cleared the mark of a write it did not   *)
(* have.                                                                     *)
orderly == slips \cap {"crowded", "hurried"} = {} /\ (world.shared => "cleared" \notin slips)

marked(w) == note[w].pc = "marked"
live(w) == note[w].pc \in {"run", "read", "marked"}
Pulling == {"head", "pull", "download", "save"}

\* Every ETag anybody has seen is one the object had, and there is a file
\* wherever there has been something to push.
Known ==
  /\ row.etag <= object.etag /\ push.row.etag <= object.etag
  /\ \A o \in Opener : opener[o].row.etag <= object.etag /\ opener[o].etag <= object.etag
  /\ \A w \in Statement : note[w].row.etag <= object.etag
  /\ push.pc = "uploaded" => /\ push.etag <= object.etag /\ push.content \subseteq object.content
                             /\ ~world.shared => push.etag = object.etag
  /\ push.pc \in {"upload", "uploaded"} => local # NoFile
  /\ ~world.shared /\ (local = NoFile \/ push.pc = "nothing") => object.etag = 0

\* Whoever has the object's ETag, in the row or in what was read of it, has a
\* file with all that the object holds.
full(etag) == etag = object.etag /\ etag # 0 => local # NoFile /\ object.content \subseteq local
AllFull ==
  /\ full(row.etag) /\ full(push.row.etag)
  /\ \A o \in Opener : full(opener[o].row.etag) /\ (opener[o].pc = "save" => full(opener[o].etag))
  /\ \A w \in Statement : full(note[w].row.etag)
  /\ push.pc = "uploaded" => full(push.etag)
  /\ push.pc = "upload" => push.content \subseteq local

\* No statement is on its way to a closed engine or a process that ends.
NotesNeedEngine ==
  ~engine \/ phase # "up" => \A w \in Statement : note[w].pc \notin {"run", "read"}
\* A pull is alone with the file.
PullsWhenClosed == \A o \in Opener : opener[o].pc \in Pulling => ~engine
OnePull ==
  ~engine => \A o, p \in Opener :
    opener[o].pc \in Pulling \cup {"open"} /\ opener[p].pc \in Pulling \cup {"open"} => o = p
\* A write that is run stays in the file.
WritesLast == \A w \in Statement : live(w) => local # NoFile /\ w \in local

\* A marked write that is not in the object makes the row dirty, unless nobody
\* else writes and the row has the object's ETag, so that it is not replaced.
MarksAreSeen ==
  \A w \in Statement : marked(w) =>
    w \in object.content \/ row.dirty \/ (~world.shared /\ row.etag = object.etag)

\* So does the row that a pull has read, though pushes go on.
PullsSeeMarks ==
  \A o \in Opener, w \in Statement : marked(w) /\ opener[o].pc \in {"peek", "head", "pull"} /\ ~engine =>
    \/ w \in object.content \/ opener[o].row.dirty
    \/ ~world.shared /\ opener[o].row.etag = IF opener[o].pc = "pull" THEN opener[o].etag ELSE object.etag
Replaceable ==
  \A o \in Opener, w \in Statement : marked(w) /\ opener[o].pc \in {"download", "save"} =>
    w \in object.content /\ (push.pc = "upload" => w \in push.content)
MarkedSinceSnapshot ==
  push.pc = "upload" => \A w \in Statement : marked(w) /\ w \notin push.content =>
    /\ row.dirty
    /\ \A o \in Opener : opener[o].pc \in {"peek", "head", "pull"} /\ ~engine => opener[o].row.dirty

SyncTypes == CloudTypeOK /\ world \in Worlds /\ (push.pc = "snapshot" => local # NoFile)
Orderly ==
  /\ NotesNeedEngine /\ PullsWhenClosed /\ OnePull /\ WritesLast
  /\ MarksAreSeen /\ PullsSeeMarks /\ Replaceable /\ MarkedSinceSnapshot
SyncInv ==
  /\ SyncTypes /\ Known
  /\ "overlapped" \notin slips => AllFull
  /\ orderly => Orderly

-----------------------------------------------------------------------------
Openings == [pc : {"idle", "peek", "head", "pull", "download", "save", "open"},
             row : State, etag : Nat]
Notes == [pc : {"idle", "run", "read", "marked", "lost"}, row : State, etag : {0}]
Pushes == [pc : {"idle", "start", "nothing", "snapshot", "upload", "uploaded"}, row : State,
           content : Content, etag : Nat]

LEMMA Records ==
  /\ NeverSynced \in State /\ AtRest \in Openings /\ AtRest \in Notes /\ NoPush \in Pushes
  /\ AtRest.pc = "idle" /\ NoPush.pc = "idle"
  /\ AtRest.row = NeverSynced /\ NoPush.row = NeverSynced /\ NoPush.content = {}
  /\ NeverSynced.etag = 0 /\ ~NeverSynced.dirty /\ {} \in Content
BY DEF NeverSynced, State, AtRest, Openings, Notes, NoPush, Pushes, Content

\* The first conjunct of the set of records, in the words of this module.
LEMMA SyncFacts ==
  ASSUME SyncTypes
  PROVE  /\ row \in State /\ row.etag \in Nat /\ row.dirty \in BOOLEAN
         /\ object.etag \in Nat /\ object.content \in Content /\ object.content # NoFile
         /\ local # NoFile => local \in Content
         /\ opener \in [Opener -> Openings] /\ note \in [Statement -> Notes] /\ push \in Pushes
         /\ \A o \in Opener : opener[o] \in Openings /\ opener[o].row \in State /\ opener[o].etag \in Nat
         /\ \A w \in Statement : note[w] \in Notes /\ note[w].row \in State
         /\ push.row \in State /\ push.content \in Content /\ push.etag \in Nat
         /\ Theirs \notin Statement /\ {} # NoFile
         /\ world.shared \in BOOLEAN
BY CloudAssumption DEF CloudAssumption, SyncTypes, CloudTypeOK, State, Content, World, Openings, Notes, Pushes

\* What has happened has happened, in the world there is.
LEMMA SlipsGrow ==
  ASSUME [CloudNext]_cloudVars
  PROVE  world' = world /\ slips \subseteq slips' /\ (slips \subseteq Slips => slips' \subseteq Slips)
<1> USE DEF slip, Slips
<1>1. ASSUME NEW o \in Opener, OpenStep(o)
      PROVE  world' = world /\ slips \subseteq slips' /\ (slips \subseteq Slips => slips' \subseteq Slips)
  <2>1. CASE ReadRow(o) \/ Head(o) \/ Pull(o) \/ Downloaded(o) \/ Open(o)
    BY <2>1 DEF ReadRow, Head, Pull, Downloaded, Open
  <2>2. CASE Peek(o) \/ Download(o)
    BY <2>2 DEF Peek, Download
  <2> QED
    BY <1>1, <2>1, <2>2 DEF OpenStep
<1>2. ASSUME NEW w \in Statement, Mutate(w) \/ MarkStep(w)
      PROVE  world' = world /\ slips \subseteq slips' /\ (slips \subseteq Slips => slips' \subseteq Slips)
  BY <1>2 DEF Mutate, MarkStep, ReadForMark, MarkDirty
<1>3. CASE PushStep
  BY <1>3 DEF PushStep, TimerFires, PushReads, NothingToPush, Snapshot, Upload, Uploaded
<1>4. CASE UploadFails \/ SyncNow \/ Evict \/ Shutdown \/ Exit \/ Crash \/ TheyPush
  BY <1>4 DEF UploadFails, SyncNow, Evict, Shutdown, Exit, Crash, TheyPush
<1>5. CASE UNCHANGED cloudVars
  BY <1>5 DEF cloudVars
<1> QED
  BY <1>1, <1>2, <1>3, <1>4, <1>5 DEF CloudNext

LEMMA SyncTypesInit == ASSUME CloudInit PROVE SyncTypes
<1>1. row \in State
  BY Records DEF CloudInit
<1>2. local \in Content \cup {NoFile}
  BY Records DEF CloudInit
<1>3. object \in [etag : Nat, content : Content]
  BY Records DEF CloudInit
<1>4. engine \in BOOLEAN /\ timer \in BOOLEAN
  BY Records DEF CloudInit
<1>5. opener \in [Opener -> Openings]
  BY Records DEF CloudInit
<1>6. note \in [Statement -> Notes]
  BY Records DEF CloudInit
<1>7. push \in Pushes /\ push.pc = "idle"
  BY Records DEF CloudInit
<1>8. syncs \in 0 .. MaxSyncs /\ phase = "up" /\ world \in Worlds
  BY CloudAssumption DEF CloudAssumption, CloudInit
<1>9. (engine => local # NoFile) /\ slips \subseteq Slips
  BY DEF CloudInit
<1> QED
  BY <1>1, <1>2, <1>3, <1>4, <1>5, <1>6, <1>7, <1>8, <1>9 DEF CloudTypeOK, SyncTypes, Openings, Notes, Pushes

LEMMA SyncTypesOpen ==
  ASSUME SyncTypes, slips' \subseteq Slips, NEW o \in Opener, OpenStep(o)
  PROVE  SyncTypes'
<1>1. CASE ReadRow(o) \/ Peek(o) \/ Head(o)
  <2>1. opener' \in [Opener -> Openings]
    <3>1. ReadRow(o) => opener' \in [Opener -> Openings]
      BY SyncFacts DEF ReadRow, Openings
    <3>2. Peek(o) => opener' \in [Opener -> Openings]
      BY SyncFacts DEF Peek, goto, Openings
    <3>3. Head(o) => opener' \in [Opener -> Openings]
      <4> DEFINE headed == [opener[o] EXCEPT !.pc = "pull", !.etag = object.etag]
      <4>1. headed \in Openings
        BY SyncFacts DEF Openings
      <4>2. Head(o) => opener' = [opener EXCEPT ![o] = headed]
        BY SyncFacts DEF Head
      <4> QED
        BY <4>1, <4>2, SyncFacts
    <3> QED
      BY <1>1, <3>1, <3>2, <3>3
  <2>2. UNCHANGED <<world, row, local, object, engine, note, timer, push, syncs, phase>>
    <3>1. CASE ReadRow(o)
      BY <3>1 DEF ReadRow
    <3>2. CASE Peek(o)
      BY <3>2 DEF Peek
    <3>3. CASE Head(o)
      BY <3>3 DEF Head
    <3> QED
      BY <1>1, <3>1, <3>2, <3>3
  <2> QED
    BY <2>1, <2>2 DEF SyncTypes, CloudTypeOK, Openings
<1>2. CASE Pull(o)
  <2>1. opener' \in [Opener -> Openings]
    BY <1>2, SyncFacts DEF Pull, goto, Openings
  <2>2. row' \in State
    BY <1>2, SyncFacts DEF Pull, State
  <2>3. UNCHANGED <<world, local, object, note, timer, push, syncs, phase>> /\ (engine' = engine \/ engine' = FALSE)
    BY <1>2 DEF Pull
  <2>4. engine' \in BOOLEAN
    BY <2>3 DEF SyncTypes, CloudTypeOK
  <2>5. engine' => local' # NoFile
    BY <2>3 DEF SyncTypes, CloudTypeOK
  <2>6. SyncTypes' <=> CloudTypeOK' /\ world' \in Worlds /\ (push'.pc = "snapshot" => local' # NoFile)
    BY DEF SyncTypes
  <2> QED
    BY <2>1, <2>2, <2>3, <2>4, <2>5, <2>6 DEF SyncTypes, CloudTypeOK, Openings
<1>3. CASE Download(o)
  <2>1. opener' \in [Opener -> Openings]
    <3> DEFINE fetched == [opener[o] EXCEPT !.pc = "save", !.etag = object.etag]
    <3>1. fetched \in Openings
      BY SyncFacts DEF Openings
    <3>2. opener' = [opener EXCEPT ![o] = fetched]
      BY <1>3, SyncFacts DEF Download
    <3> QED
      BY <3>1, <3>2, SyncFacts
  <2>2. local' \in Content /\ local' # NoFile
    BY <1>3, SyncFacts DEF Download
  <2> QED
    BY <1>3, <2>1, <2>2 DEF Download, SyncTypes, CloudTypeOK, Openings
<1>4. CASE Downloaded(o)
  BY <1>4, SyncFacts DEF Downloaded, goto, inSync, State, SyncTypes, CloudTypeOK, Openings
<1>5. CASE Open(o)
  <2>1. opener' \in [Opener -> Openings] /\ engine' = TRUE
    BY <1>5, SyncFacts DEF Open, goto, Openings
  <2>2. local' \in Content /\ local' # NoFile
    BY <1>5, SyncFacts DEF Open, Content
  <2> QED
    BY <1>5, <2>1, <2>2 DEF Open, SyncTypes, CloudTypeOK, Openings
<1> QED
  BY <1>1, <1>2, <1>3, <1>4, <1>5 DEF OpenStep

LEMMA SyncTypesWrite ==
  ASSUME SyncTypes, slips' \subseteq Slips, NEW w \in Statement, Mutate(w) \/ MarkStep(w)
  PROVE  SyncTypes'
<1>1. CASE Mutate(w)
  <2>1. local \in Content /\ local' = local \cup {w} /\ note' \in [Statement -> Notes]
    BY <1>1, SyncFacts DEF Mutate, SyncTypes, CloudTypeOK, Notes
  <2>2. local' \in Content /\ local' # NoFile
    BY <2>1, CloudAssumption DEF CloudAssumption, Content
  <2> QED
    BY <1>1, <2>1, <2>2 DEF Mutate, SyncTypes, CloudTypeOK, Notes
<1>2. CASE ReadForMark(w)
  BY <1>2, SyncFacts DEF ReadForMark, SyncTypes, CloudTypeOK, Notes
<1>3. CASE MarkDirty(w)
  <2>1. [AtRest EXCEPT !.pc = "marked"] \in Notes
    BY Records DEF Notes
  <2>2. note' \in [Statement -> Notes]
    BY <1>3, <2>1, SyncFacts DEF MarkDirty
  <2>3. row' \in State
    BY <1>3, SyncFacts DEF MarkDirty, State
  <2> QED
    BY <1>3, <2>2, <2>3 DEF MarkDirty, SyncTypes, CloudTypeOK, Notes
<1> QED
  BY <1>1, <1>2, <1>3 DEF MarkStep

LEMMA SyncTypesPush ==
  ASSUME SyncTypes, slips' \subseteq Slips, PushStep \/ UploadFails \/ SyncNow
  PROVE  SyncTypes'
<1>1. (begin \in Pushes /\ begin.pc # "snapshot") \/ begin = push
  BY Records DEF begin, Pushes
<1>2. CASE TimerFires \/ SyncNow
  <2>1. push' \in Pushes /\ (push'.pc = "snapshot" => local' # NoFile) /\ timer' \in BOOLEAN
    BY <1>1, <1>2, SyncFacts DEF TimerFires, SyncNow, SyncTypes, CloudTypeOK
  <2>2. syncs' \in 0 .. MaxSyncs
    BY <1>2, CloudAssumption DEF CloudAssumption, TimerFires, SyncNow, SyncTypes, CloudTypeOK
  <2> QED
    BY <1>2, <2>1, <2>2 DEF TimerFires, SyncNow, SyncTypes, CloudTypeOK, Pushes
<1>3. CASE PushReads
  BY <1>3, SyncFacts DEF PushReads, SyncTypes, CloudTypeOK, Pushes
<1>4. CASE NothingToPush
  BY <1>4, SyncFacts, Records DEF NothingToPush, State, SyncTypes, CloudTypeOK, Pushes
<1>5. CASE Snapshot
  BY <1>5, SyncFacts DEF Snapshot, SyncTypes, CloudTypeOK, Pushes
<1>6. CASE Upload
  <2>1. object' \in [etag : Nat, content : Content]
    BY <1>6, SyncFacts DEF Upload
  <2>2. push \in Pushes /\ object.etag + 1 \in Nat
    BY SyncFacts
  <2>3. push' \in Pushes /\ push'.pc = "uploaded"
    BY <1>6, <2>2 DEF Upload, Pushes
  <2> QED
    BY <1>6, <2>1, <2>3 DEF Upload, SyncTypes, CloudTypeOK, Pushes
<1>7. CASE UploadFails
  BY <1>7, SyncFacts, Records DEF UploadFails, State, SyncTypes, CloudTypeOK, Pushes
<1>8. CASE Uploaded
  BY <1>8, SyncFacts, Records DEF Uploaded, inSync, State, SyncTypes, CloudTypeOK, Pushes
<1> QED
  BY <1>2, <1>3, <1>4, <1>5, <1>6, <1>7, <1>8 DEF PushStep

\* What a process that ends leaves of the statements and requests.
LEMMA Ended ==
  ASSUME SyncTypes, Exit \/ Crash
  PROVE  /\ opener' \in [Opener -> Openings] /\ note' \in [Statement -> Notes]
         /\ \A o \in Opener : opener'[o].pc = "idle" /\ opener'[o].row = NeverSynced /\ opener'[o].etag = 0
         /\ \A w \in Statement : IF note[w].pc \in {"run", "read"}
                                 THEN note'[w].pc = "lost" /\ note'[w].row = NeverSynced
                                 ELSE note'[w] = note[w]
<1>1. note' = [w \in Statement |-> IF note[w].pc \in {"run", "read"}
                                   THEN [AtRest EXCEPT !.pc = "lost"] ELSE note[w]]
      /\ opener' = [o \in Opener |-> AtRest]
  BY DEF Exit, Crash
<1>2. [AtRest EXCEPT !.pc = "lost"] \in Notes /\ AtRest \in Openings /\ AtRest.etag = 0
  BY Records DEF Notes, Openings, AtRest
<1> QED
  BY <1>1, <1>2, SyncFacts, Records DEF AtRest

LEMMA SyncTypesNext ==
  ASSUME SyncTypes, [CloudNext]_cloudVars
  PROVE  SyncTypes'
<1>0. slips' \subseteq Slips
  BY SlipsGrow DEF SyncTypes, CloudTypeOK
<1>1. CASE Evict \/ TheyPush
  <2>1. object' \in [etag : Nat, content : Content]
    BY <1>1, SyncFacts DEF Evict, TheyPush, Content, SyncTypes, CloudTypeOK
  <2>2. engine' \in BOOLEAN /\ (engine' => local' # NoFile)
    <3>1. CASE Evict
      BY <3>1 DEF Evict
    <3>2. CASE TheyPush
      BY <3>2 DEF TheyPush, SyncTypes, CloudTypeOK
    <3> QED
      BY <1>1, <3>1, <3>2
  <2> QED
    BY <1>0, <1>1, <2>1, <2>2 DEF Evict, TheyPush, SyncTypes, CloudTypeOK
<1>2. CASE Shutdown
  BY <1>0, <1>2, SyncFacts, Records DEF Shutdown, begin, SyncTypes, CloudTypeOK, Pushes
<1>3. CASE Exit \/ Crash
  <2>1. UNCHANGED <<world, row, local, object, syncs>> /\ engine' = FALSE /\ timer' = FALSE
        /\ push' = NoPush /\ (phase' = phase \/ phase' = "down")
    BY <1>3 DEF Exit, Crash
  <2> QED
    BY <1>0, <1>3, <2>1, Ended, Records DEF SyncTypes, CloudTypeOK, Openings, Notes, Pushes
<1>4. CASE UNCHANGED cloudVars
  BY <1>0, <1>4 DEF cloudVars, SyncTypes, CloudTypeOK
<1> QED
  BY <1>0, <1>1, <1>2, <1>3, <1>4, SyncTypesOpen, SyncTypesWrite, SyncTypesPush DEF CloudNext

-----------------------------------------------------------------------------
(* What a step keeps: Known always, AllFull and Orderly where they hold.        *)
Kept ==
  /\ Known'
  /\ "overlapped" \notin slips' /\ AllFull => AllFull'
  /\ orderly /\ orderly' /\ Orderly => Orderly'
Stepping == SyncTypes /\ SyncTypes' /\ Known

LEMMA ReadRowStep == ASSUME Stepping, NEW o \in Opener, ReadRow(o) PROVE Kept
<1>1. /\ \A p \in Opener \ {o} : opener'[p] = opener[p]
      /\ opener[o].pc = "idle"
      /\ opener'[o].pc = "peek" /\ opener'[o].row = row /\ opener'[o].etag = 0
      /\ UNCHANGED <<world, row, local, object, engine, note, push, phase>>
  BY SyncFacts DEF Stepping, ReadRow, at
<1>2. Known'
  BY <1>1, SyncFacts DEF Stepping, Known
<1>3. AllFull => AllFull'
  BY <1>1 DEF AllFull, full
<1>4. ASSUME Orderly PROVE Orderly'
  <2>1. NotesNeedEngine' /\ PullsWhenClosed' /\ OnePull' /\ WritesLast'
    BY <1>1, <1>4 DEF Orderly, NotesNeedEngine, PullsWhenClosed, OnePull, WritesLast, live, Pulling
  <2>2. MarksAreSeen' /\ PullsSeeMarks'
    BY <1>1, <1>4 DEF Orderly, MarksAreSeen, PullsSeeMarks, marked
  <2>3. Replaceable' /\ MarkedSinceSnapshot'
    BY <1>1, <1>4 DEF Orderly, Replaceable, MarkedSinceSnapshot, marked
  <2> QED
    BY <2>1, <2>2, <2>3 DEF Orderly
<1> QED
  BY <1>2, <1>3, <1>4 DEF Kept

LEMMA PeekStep == ASSUME Stepping, NEW o \in Opener, Peek(o) PROVE Kept
<1>1. /\ \A p \in Opener \ {o} : opener'[p] = opener[p]
      /\ opener[o].pc = "peek" /\ opener'[o].row = opener[o].row /\ opener'[o].etag = opener[o].etag
      /\ IF engine THEN opener'[o].pc = "open" ELSE opener'[o].pc = "head"
      /\ UNCHANGED <<world, row, local, object, engine, note, push, phase>>
  BY SyncFacts DEF Stepping, Peek, goto, at, Openings
<1>2. Known'
  BY <1>1, SyncFacts DEF Stepping, Known
<1>3. AllFull => AllFull'
  BY <1>1 DEF AllFull, full
<1>4. ASSUME orderly', Orderly PROVE Orderly'
  <2>1. ~engine => \A p \in Opener : opener[p].pc \notin Pulling \cup {"open"}
    BY <1>4 DEF Peek, slip, orderly, Pulling
  <2>2. NotesNeedEngine' /\ PullsWhenClosed' /\ WritesLast'
    BY <1>1, <1>4 DEF Orderly, NotesNeedEngine, PullsWhenClosed, WritesLast, live, Pulling
  <2>3. OnePull'
    BY <1>1, <2>1 DEF OnePull
  <2>4. MarksAreSeen' /\ PullsSeeMarks'
    BY <1>1, <1>4 DEF Orderly, MarksAreSeen, PullsSeeMarks, marked
  <2>5. Replaceable' /\ MarkedSinceSnapshot'
    BY <1>1, <1>4 DEF Orderly, Replaceable, MarkedSinceSnapshot, marked
  <2> QED
    BY <2>2, <2>3, <2>4, <2>5 DEF Orderly
<1> QED
  BY <1>2, <1>3, <1>4 DEF Kept

LEMMA HeadStep == ASSUME Stepping, NEW o \in Opener, Head(o) PROVE Kept
<1>1. /\ \A p \in Opener \ {o} : opener'[p] = opener[p]
      /\ opener[o].pc = "head"
      /\ opener'[o].pc = "pull" /\ opener'[o].row = opener[o].row /\ opener'[o].etag = object.etag
      /\ UNCHANGED <<world, row, local, object, engine, note, push, phase>>
  BY SyncFacts DEF Stepping, Head, at, Openings
<1>2. Known'
  BY <1>1, SyncFacts DEF Stepping, Known
<1>3. AllFull => AllFull'
  BY <1>1 DEF AllFull, full
<1>4. ASSUME Orderly PROVE Orderly'
  <2>1. NotesNeedEngine' /\ PullsWhenClosed' /\ OnePull' /\ WritesLast'
    BY <1>1, <1>4 DEF Orderly, NotesNeedEngine, PullsWhenClosed, OnePull, WritesLast, live, Pulling
  <2>2. MarksAreSeen' /\ PullsSeeMarks'
    BY <1>1, <1>4 DEF Orderly, MarksAreSeen, PullsSeeMarks, marked
  <2>3. Replaceable' /\ MarkedSinceSnapshot'
    BY <1>1, <1>4 DEF Orderly, Replaceable, MarkedSinceSnapshot, marked
  <2> QED
    BY <2>1, <2>2, <2>3 DEF Orderly
<1> QED
  BY <1>2, <1>3, <1>4 DEF Kept

LEMMA PullStep == ASSUME Stepping, NEW o \in Opener, Pull(o) PROVE Kept
<1>1. /\ \A p \in Opener \ {o} : opener'[p] = opener[p]
      /\ opener[o].pc = "pull" /\ opener'[o].row = opener[o].row /\ opener'[o].etag = opener[o].etag
      /\ opener'[o].pc \in {"open", "download"} /\ (~engine => ~engine')
      /\ UNCHANGED <<world, local, object, note, push, phase, slips>>
  BY SyncFacts DEF Stepping, Pull, goto, at, Openings
<1>2. \/ row' = row
      \/ /\ opener'[o].pc = "open" /\ row'.etag = opener[o].row.etag
         /\ (local = NoFile /\ ~row'.dirty) \/ (local # NoFile /\ opener[o].row.dirty /\ row'.dirty)
  <2>1. \A p \in {"open", "download"} : goto(o, p) => opener'[o].pc = p
    BY SyncFacts DEF Stepping, goto, Openings
  <2>2. LET mine == opener[o].row IN
        /\ [mine EXCEPT !.dirty = FALSE].etag = mine.etag /\ ~[mine EXCEPT !.dirty = FALSE].dirty
        /\ [mine EXCEPT !.error = TRUE].etag = mine.etag /\ [mine EXCEPT !.error = TRUE].dirty = mine.dirty
    BY SyncFacts DEF Stepping, State
  <2> QED
    BY <2>1, <2>2 DEF Pull
<1>3. opener'[o].pc = "download" /\ local # NoFile =>
        row' = row /\ opener[o].etag # opener[o].row.etag /\ ~opener[o].row.dirty
  BY <1>1, SyncFacts DEF Stepping, Pull, goto, Openings
<1>4. Known'
  BY <1>1, <1>2, SyncFacts DEF Stepping, Known
<1>5. AllFull => AllFull'
  BY <1>1, <1>2 DEF AllFull, full
<1>6. ASSUME Orderly PROVE Orderly'
  <2>1. ~engine /\ ~engine'
    BY <1>1, <1>6 DEF Orderly, PullsWhenClosed, Pulling
  <2>2. local = NoFile => \A w \in Statement : ~marked(w)
    BY <1>6 DEF Orderly, WritesLast, live, marked
  <2>3. NotesNeedEngine' /\ PullsWhenClosed' /\ OnePull' /\ WritesLast'
    BY <1>1, <1>6, <2>1 DEF Orderly, NotesNeedEngine, PullsWhenClosed, OnePull, WritesLast, live, Pulling
  <2>4. MarksAreSeen'
    BY <1>1, <1>2, <1>6, <2>2 DEF Orderly, MarksAreSeen, marked
  <2>5. PullsSeeMarks'
    BY <1>1, <1>6, <2>1 DEF Orderly, PullsSeeMarks, marked
  <2>6. Replaceable'
    BY <1>1, <1>3, <1>6, <2>1, <2>2 DEF Orderly, Replaceable, PullsSeeMarks, MarkedSinceSnapshot, marked
  <2>7. MarkedSinceSnapshot'
    BY <1>1, <1>2, <1>6, <2>1, <2>2 DEF Orderly, MarkedSinceSnapshot, marked
  <2> QED
    BY <2>3, <2>4, <2>5, <2>6, <2>7 DEF Orderly
<1> QED
  BY <1>4, <1>5, <1>6 DEF Kept

LEMMA DownloadStep == ASSUME Stepping, NEW o \in Opener, Download(o) PROVE Kept
<1>1. /\ \A p \in Opener \ {o} : opener'[p] = opener[p]
      /\ opener[o].pc = "download" /\ local' = object.content /\ local' # NoFile
      /\ opener'[o].pc = "save" /\ opener'[o].row = opener[o].row /\ opener'[o].etag = object.etag
      /\ UNCHANGED <<world, row, object, engine, note, push, phase>>
  BY SyncFacts DEF Stepping, Download, at, Openings
<1>2. Known'
  BY <1>1, SyncFacts DEF Stepping, Known
<1>3. "overlapped" \notin slips' => AllFull'
  <2>1. "overlapped" \notin slips' => push.pc # "upload"
    BY DEF Download, slip
  <2> QED
    BY <1>1, <2>1 DEF AllFull, full
<1>4. ASSUME Orderly PROVE Orderly'
  <2>1. ~engine
    BY <1>1, <1>4 DEF Orderly, PullsWhenClosed, Pulling
  <2>2. \A w \in Statement : live(w) => marked(w)
    BY <1>4, <2>1 DEF Orderly, NotesNeedEngine, live, marked
  <2>3. \A w \in Statement : marked(w) => w \in object.content /\ (push.pc = "upload" => w \in push.content)
    BY <1>1, <1>4 DEF Orderly, Replaceable
  <2>4. NotesNeedEngine' /\ PullsWhenClosed' /\ OnePull'
    BY <1>1, <1>4 DEF Orderly, NotesNeedEngine, PullsWhenClosed, OnePull, Pulling
  <2>5. WritesLast' /\ MarksAreSeen' /\ PullsSeeMarks'
    BY <1>1, <2>2, <2>3 DEF WritesLast, MarksAreSeen, PullsSeeMarks, live, marked
  <2>6. Replaceable' /\ MarkedSinceSnapshot'
    BY <1>1, <2>3 DEF Replaceable, MarkedSinceSnapshot, marked
  <2> QED
    BY <2>4, <2>5, <2>6 DEF Orderly
<1> QED
  BY <1>2, <1>3, <1>4 DEF Kept

LEMMA DownloadedStep == ASSUME Stepping, NEW o \in Opener, Downloaded(o) PROVE Kept
<1>1. /\ \A p \in Opener \ {o} : opener'[p] = opener[p]
      /\ opener[o].pc = "save" /\ row'.etag = opener[o].etag /\ ~row'.dirty
      /\ opener'[o].pc = "open" /\ opener'[o].row = opener[o].row /\ opener'[o].etag = opener[o].etag
      /\ UNCHANGED <<world, local, object, engine, note, push, phase>>
  BY SyncFacts DEF Stepping, Downloaded, inSync, goto, at, Openings
<1>2. Known'
  BY <1>1, SyncFacts DEF Stepping, Known
<1>3. AllFull => AllFull'
  BY <1>1 DEF AllFull, full
<1>4. ASSUME Orderly PROVE Orderly'
  <2>1. \A w \in Statement : marked(w) => w \in object.content /\ (push.pc = "upload" => w \in push.content)
    BY <1>1, <1>4 DEF Orderly, Replaceable
  <2>2. NotesNeedEngine' /\ PullsWhenClosed' /\ OnePull' /\ WritesLast'
    BY <1>1, <1>4 DEF Orderly, NotesNeedEngine, PullsWhenClosed, OnePull, WritesLast, live, Pulling
  <2>3. MarksAreSeen' /\ PullsSeeMarks' /\ Replaceable' /\ MarkedSinceSnapshot'
    BY <1>1, <2>1 DEF MarksAreSeen, PullsSeeMarks, Replaceable, MarkedSinceSnapshot, marked
  <2> QED
    BY <2>2, <2>3 DEF Orderly
<1> QED
  BY <1>2, <1>3, <1>4 DEF Kept

LEMMA OpenFileStep == ASSUME Stepping, NEW o \in Opener, Open(o) PROVE Kept
<1>1. /\ \A p \in Opener \ {o} : opener'[p] = opener[p]
      /\ opener[o].pc = "open" /\ engine' /\ phase = "up" /\ local' # NoFile
      /\ local # NoFile => local' = local
      /\ opener'[o].pc = "idle" /\ opener'[o].row = opener[o].row /\ opener'[o].etag = opener[o].etag
      /\ UNCHANGED <<world, row, object, note, push, phase>>
  BY SyncFacts DEF Stepping, Open, goto, at, Openings
<1>2. Known'
  BY <1>1, SyncFacts DEF Stepping, Known
<1>3. AllFull => AllFull'
  BY <1>1, SyncFacts DEF Stepping, Known, AllFull, full
<1>4. ASSUME Orderly PROVE Orderly'
  <2>1. \A p \in Opener : opener'[p].pc \notin Pulling
    BY <1>1, <1>4 DEF Orderly, PullsWhenClosed, OnePull, Pulling
  <2>2. NotesNeedEngine' /\ PullsWhenClosed' /\ OnePull' /\ WritesLast'
    BY <1>1, <1>4, <2>1 DEF Orderly, NotesNeedEngine, PullsWhenClosed, OnePull, WritesLast, live
  <2>3. MarksAreSeen' /\ PullsSeeMarks' /\ Replaceable' /\ MarkedSinceSnapshot'
    BY <1>1, <1>4, <2>1 DEF Orderly, MarksAreSeen, PullsSeeMarks, Replaceable, MarkedSinceSnapshot, marked, Pulling
  <2> QED
    BY <2>2, <2>3 DEF Orderly
<1> QED
  BY <1>2, <1>3, <1>4 DEF Kept

LEMMA EvictStep == ASSUME Stepping, Evict PROVE Kept
<1>1. ~engine' /\ UNCHANGED <<world, row, local, object, opener, note, push, phase>>
  BY DEF Evict
<1>2. Known' /\ (AllFull => AllFull')
  BY <1>1 DEF Stepping, Known, AllFull, full
<1>3. ASSUME orderly', Orderly PROVE Orderly'
  <2>1. /\ \A w \in Statement : note[w].pc \notin {"run", "read"}
        /\ \A o \in Opener : opener[o].pc = "idle"
    BY <1>3 DEF Evict, slip, orderly, quiet
  <2>2. NotesNeedEngine' /\ PullsWhenClosed' /\ OnePull' /\ WritesLast'
    BY <1>1, <1>3, <2>1 DEF Orderly, NotesNeedEngine, PullsWhenClosed, OnePull, WritesLast, live, Pulling
  <2>3. MarksAreSeen' /\ PullsSeeMarks' /\ Replaceable' /\ MarkedSinceSnapshot'
    BY <1>1, <1>3, <2>1 DEF Orderly, MarksAreSeen, PullsSeeMarks, Replaceable, MarkedSinceSnapshot, marked
  <2> QED
    BY <2>2, <2>3 DEF Orderly
<1> QED
  BY <1>2, <1>3 DEF Kept

-----------------------------------------------------------------------------
LEMMA MutateStep == ASSUME Stepping, NEW w \in Statement, Mutate(w) PROVE Kept
<1>1. /\ engine /\ phase = "up" /\ note[w].pc = "idle" /\ note'[w].pc = "run" /\ note'[w].row = note[w].row
      /\ \A v \in Statement \ {w} : note'[v] = note[v]
      /\ local # NoFile /\ local' # NoFile /\ local' = local \cup {w}
      /\ UNCHANGED <<world, row, object, engine, opener, push, phase>>
  BY SyncFacts DEF Stepping, SyncTypes, CloudTypeOK, Mutate, Content, Notes
<1>2. Known' /\ (AllFull => AllFull')
  BY <1>1 DEF Stepping, Known, AllFull, full
<1>3. ASSUME Orderly PROVE Orderly'
  <2>1. NotesNeedEngine' /\ PullsWhenClosed' /\ OnePull' /\ WritesLast'
    BY <1>1, <1>3 DEF Orderly, NotesNeedEngine, PullsWhenClosed, OnePull, WritesLast, live
  <2>2. MarksAreSeen' /\ PullsSeeMarks' /\ Replaceable' /\ MarkedSinceSnapshot'
    BY <1>1, <1>3 DEF Orderly, MarksAreSeen, PullsSeeMarks, Replaceable, MarkedSinceSnapshot, marked
  <2> QED
    BY <2>1, <2>2 DEF Orderly
<1> QED
  BY <1>2, <1>3 DEF Kept

LEMMA ReadForMarkStep == ASSUME Stepping, NEW w \in Statement, ReadForMark(w) PROVE Kept
<1>1. /\ note[w].pc = "run" /\ note'[w].pc = "read" /\ note'[w].row = row
      /\ \A v \in Statement \ {w} : note'[v] = note[v]
      /\ UNCHANGED <<world, row, local, object, engine, opener, push, phase>>
  BY SyncFacts DEF Stepping, ReadForMark
<1>2. Known' /\ (AllFull => AllFull')
  BY <1>1 DEF Stepping, Known, AllFull, full
<1>3. ASSUME Orderly PROVE Orderly'
  <2>1. NotesNeedEngine' /\ PullsWhenClosed' /\ OnePull' /\ WritesLast'
    BY <1>1, <1>3 DEF Orderly, NotesNeedEngine, PullsWhenClosed, OnePull, WritesLast, live
  <2>2. MarksAreSeen' /\ PullsSeeMarks' /\ Replaceable' /\ MarkedSinceSnapshot'
    BY <1>1, <1>3 DEF Orderly, MarksAreSeen, PullsSeeMarks, Replaceable, MarkedSinceSnapshot, marked
  <2> QED
    BY <2>1, <2>2 DEF Orderly
<1> QED
  BY <1>2, <1>3 DEF Kept

LEMMA MarkDirtyStep == ASSUME Stepping, NEW w \in Statement, MarkDirty(w) PROVE Kept
<1>1. /\ note[w].pc = "read" /\ note'[w].pc = "marked" /\ note'[w].row = NeverSynced
      /\ \A v \in Statement \ {w} : note'[v] = note[v]
      /\ row'.etag = note[w].row.etag /\ row'.dirty
      /\ UNCHANGED <<world, local, object, engine, opener, push, phase>>
  BY SyncFacts, Records DEF Stepping, MarkDirty, State, Notes
<1>2. Known'
  BY <1>1, SyncFacts, Records DEF Stepping, Known
<1>3. AllFull => AllFull'
  BY <1>1, Records DEF AllFull, full
<1>4. ASSUME Orderly PROVE Orderly'
  <2>1. engine
    BY <1>1, <1>4 DEF Orderly, NotesNeedEngine
  <2>2. NotesNeedEngine' /\ PullsWhenClosed' /\ OnePull' /\ WritesLast'
    BY <1>1, <1>4 DEF Orderly, NotesNeedEngine, PullsWhenClosed, OnePull, WritesLast, live
  <2>3. MarksAreSeen' /\ PullsSeeMarks' /\ Replaceable' /\ MarkedSinceSnapshot'
    BY <1>1, <1>4, <2>1 DEF Orderly, MarksAreSeen, PullsSeeMarks, Replaceable, MarkedSinceSnapshot,
         PullsWhenClosed, marked, Pulling
  <2> QED
    BY <2>2, <2>3 DEF Orderly
<1> QED
  BY <1>2, <1>3, <1>4 DEF Kept

-----------------------------------------------------------------------------
\* A push that begins, or is there; with the shutdown.
LEMMA BeginStep ==
  ASSUME Stepping, TimerFires \/ SyncNow \/ Shutdown
  PROVE  Kept
<1>1. UNCHANGED <<world, row, local, object, engine, opener, note>>
  BY DEF TimerFires, SyncNow, Shutdown
<1>2. \/ push' = push
      \/ push.pc = "idle" /\ push'.pc = "start" /\ push'.content = {} /\ push'.row.etag = 0
  BY SyncFacts, Records DEF Stepping, TimerFires, SyncNow, Shutdown, begin, Pushes
<1>3. Known' /\ (AllFull => AllFull')
  BY <1>1, <1>2, SyncFacts DEF Stepping, Known, AllFull, full
<1>4. ASSUME orderly', Orderly PROVE Orderly'
  <2>1. phase' = phase \/ \A w \in Statement : note[w].pc \notin {"run", "read"}
    BY <1>4 DEF TimerFires, SyncNow, Shutdown, slip, orderly, quiet
  <2>2. NotesNeedEngine' /\ PullsWhenClosed' /\ OnePull' /\ WritesLast'
    BY <1>1, <1>4, <2>1 DEF Orderly, NotesNeedEngine, PullsWhenClosed, OnePull, WritesLast, live
  <2>3. MarksAreSeen' /\ PullsSeeMarks' /\ Replaceable' /\ MarkedSinceSnapshot'
    BY <1>1, <1>2, <1>4 DEF Orderly, MarksAreSeen, PullsSeeMarks, Replaceable, MarkedSinceSnapshot, marked
  <2> QED
    BY <2>2, <2>3 DEF Orderly
<1> QED
  BY <1>3, <1>4 DEF Kept

LEMMA PushReadsStep == ASSUME Stepping, PushReads PROVE Kept
<1>1. /\ push.pc = "start" /\ push'.row = row /\ push'.content = push.content
      /\ IF local = NoFile THEN push'.pc = "nothing" ELSE push'.pc = "snapshot"
      /\ UNCHANGED <<world, row, local, object, engine, opener, note, phase>>
  BY SyncFacts DEF Stepping, PushReads, Pushes
<1>2. Known' /\ (AllFull => AllFull')
  BY <1>1 DEF Stepping, Known, AllFull, full
<1>3. ASSUME Orderly PROVE Orderly'
  <2>1. NotesNeedEngine' /\ PullsWhenClosed' /\ OnePull' /\ WritesLast'
    BY <1>1, <1>3 DEF Orderly, NotesNeedEngine, PullsWhenClosed, OnePull, WritesLast, live
  <2>2. MarksAreSeen' /\ PullsSeeMarks' /\ Replaceable' /\ MarkedSinceSnapshot'
    BY <1>1, <1>3 DEF Orderly, MarksAreSeen, PullsSeeMarks, Replaceable, MarkedSinceSnapshot, marked
  <2> QED
    BY <2>1, <2>2 DEF Orderly
<1> QED
  BY <1>2, <1>3 DEF Kept

LEMMA NothingToPushStep == ASSUME Stepping, NothingToPush PROVE Kept
<1>1. /\ push.pc = "nothing" /\ push'.pc = "idle" /\ push'.content = {} /\ push'.row = NeverSynced
      /\ row'.etag = push.row.etag
      /\ UNCHANGED <<world, local, object, engine, opener, note, phase>>
  BY SyncFacts, Records DEF Stepping, NothingToPush, State
<1>2. Known'
  BY <1>1, SyncFacts, Records DEF Stepping, Known
<1>3. AllFull => AllFull'
  BY <1>1, Records DEF AllFull, full
<1>4. ASSUME orderly', Orderly PROVE Orderly'
  <2>1. world.shared => \A w \in Statement : ~marked(w)
    BY <1>1, <1>4 DEF NothingToPush, slip, orderly, marked
  <2>2. ~world.shared => row'.etag = object.etag
    BY <1>1, SyncFacts DEF Stepping, Known, State
  <2>3. NotesNeedEngine' /\ PullsWhenClosed' /\ OnePull' /\ WritesLast'
    BY <1>1, <1>4 DEF Orderly, NotesNeedEngine, PullsWhenClosed, OnePull, WritesLast, live
  <2>4. MarksAreSeen' /\ PullsSeeMarks' /\ Replaceable' /\ MarkedSinceSnapshot'
    BY <1>1, <1>4, <2>1, <2>2 DEF Orderly, MarksAreSeen, PullsSeeMarks, Replaceable, MarkedSinceSnapshot, marked
  <2> QED
    BY <2>3, <2>4 DEF Orderly
<1> QED
  BY <1>2, <1>3, <1>4 DEF Kept

LEMMA SnapshotStep == ASSUME Stepping, Snapshot PROVE Kept
<1>1. /\ push.pc = "snapshot" /\ push'.pc = "upload" /\ push'.content = local /\ push'.row = push.row
      /\ local # NoFile
      /\ UNCHANGED <<world, row, local, object, engine, opener, note, phase>>
  BY SyncFacts DEF Stepping, SyncTypes, Snapshot, Pushes
<1>2. Known' /\ (AllFull => AllFull')
  BY <1>1 DEF Stepping, Known, AllFull, full
<1>3. ASSUME Orderly PROVE Orderly'
  <2>1. \A w \in Statement : marked(w) => w \in push'.content
    BY <1>1, <1>3 DEF Orderly, WritesLast, live, marked
  <2>2. NotesNeedEngine' /\ PullsWhenClosed' /\ OnePull' /\ WritesLast'
    BY <1>1, <1>3 DEF Orderly, NotesNeedEngine, PullsWhenClosed, OnePull, WritesLast, live
  <2>3. MarksAreSeen' /\ PullsSeeMarks' /\ Replaceable' /\ MarkedSinceSnapshot'
    BY <1>1, <1>3, <2>1 DEF Orderly, MarksAreSeen, PullsSeeMarks, Replaceable, MarkedSinceSnapshot, marked
  <2> QED
    BY <2>2, <2>3 DEF Orderly
<1> QED
  BY <1>2, <1>3 DEF Kept

LEMMA UploadStep == ASSUME Stepping, Upload PROVE Kept
<1>1. /\ push.pc = "upload" /\ push'.pc = "uploaded" /\ push'.content = push.content /\ push'.row = push.row
      /\ object'.etag = object.etag + 1 /\ push'.etag = object.etag + 1 /\ object'.content = push.content
      /\ UNCHANGED <<world, row, local, engine, opener, note, phase>>
  BY SyncFacts DEF Stepping, Upload, Pushes
<1>2. Known'
  BY <1>1, SyncFacts DEF Stepping, Known, State
<1>3. AllFull => AllFull'
  BY <1>1, SyncFacts DEF Stepping, Known, AllFull, full, State
<1>4. ASSUME Orderly PROVE Orderly'
  <2>1. NotesNeedEngine' /\ PullsWhenClosed' /\ OnePull' /\ WritesLast'
    BY <1>1, <1>4 DEF Orderly, NotesNeedEngine, PullsWhenClosed, OnePull, WritesLast, live
  <2>2. MarksAreSeen' /\ PullsSeeMarks' /\ Replaceable' /\ MarkedSinceSnapshot'
    BY <1>1, <1>4 DEF Orderly, MarksAreSeen, PullsSeeMarks, Replaceable, MarkedSinceSnapshot, marked
  <2> QED
    BY <2>1, <2>2 DEF Orderly
<1> QED
  BY <1>2, <1>3, <1>4 DEF Kept

LEMMA UploadFailsStep == ASSUME Stepping, UploadFails PROVE Kept
<1>1. /\ push.pc = "upload" /\ push'.pc = "idle" /\ push'.content = {} /\ push'.row = NeverSynced
      /\ row'.etag = push.row.etag /\ row'.dirty
      /\ UNCHANGED <<world, local, object, engine, opener, note, phase>>
  BY SyncFacts, Records DEF Stepping, UploadFails, State
<1>2. Known'
  BY <1>1, SyncFacts, Records DEF Stepping, Known
<1>3. AllFull => AllFull'
  BY <1>1, Records DEF AllFull, full
<1>4. ASSUME Orderly PROVE Orderly'
  <2>1. NotesNeedEngine' /\ PullsWhenClosed' /\ OnePull' /\ WritesLast'
    BY <1>1, <1>4 DEF Orderly, NotesNeedEngine, PullsWhenClosed, OnePull, WritesLast, live
  <2>2. MarksAreSeen' /\ PullsSeeMarks' /\ Replaceable' /\ MarkedSinceSnapshot'
    BY <1>1, <1>4 DEF Orderly, MarksAreSeen, PullsSeeMarks, Replaceable, MarkedSinceSnapshot, marked
  <2> QED
    BY <2>1, <2>2 DEF Orderly
<1> QED
  BY <1>2, <1>3, <1>4 DEF Kept

LEMMA UploadedStep == ASSUME Stepping, Uploaded PROVE Kept
<1>1. /\ push.pc = "uploaded" /\ push'.pc = "idle" /\ push'.content = {} /\ push'.row = NeverSynced
      /\ row'.etag = push.etag /\ push.content \subseteq object.content
      /\ UNCHANGED <<world, local, object, engine, opener, note, phase>>
  BY SyncFacts, Records DEF Stepping, Known, Uploaded, inSync
<1>2. Known'
  BY <1>1, SyncFacts, Records DEF Stepping, Known
<1>3. AllFull => AllFull'
  BY <1>1, Records DEF AllFull, full
<1>4. ASSUME orderly', Orderly PROVE Orderly'
  <2>1. world.shared => \A w \in Statement : marked(w) => w \in object.content
    BY <1>1, <1>4 DEF Uploaded, slip, orderly, marked
  <2>2. ~world.shared => row'.etag = object.etag
    BY <1>1 DEF Stepping, Known
  <2>3. NotesNeedEngine' /\ PullsWhenClosed' /\ OnePull' /\ WritesLast'
    BY <1>1, <1>4 DEF Orderly, NotesNeedEngine, PullsWhenClosed, OnePull, WritesLast, live
  <2>4. MarksAreSeen' /\ PullsSeeMarks' /\ Replaceable' /\ MarkedSinceSnapshot'
    BY <1>1, <1>4, <2>1, <2>2 DEF Orderly, MarksAreSeen, PullsSeeMarks, Replaceable, MarkedSinceSnapshot, marked
  <2> QED
    BY <2>3, <2>4 DEF Orderly
<1> QED
  BY <1>2, <1>3, <1>4 DEF Kept

-----------------------------------------------------------------------------
LEMMA EndStep == ASSUME Stepping, Exit \/ Crash PROVE Kept
<1>1. /\ ~engine' /\ push'.pc = "idle" /\ push'.content = {} /\ push'.row = NeverSynced
      /\ UNCHANGED <<world, row, local, object>>
  BY Records DEF Exit, Crash
<1>2. \A o \in Opener : opener'[o].pc = "idle" /\ opener'[o].row.etag = 0 /\ opener'[o].etag = 0
  BY Ended, Records DEF Stepping
<1>3. \A w \in Statement : /\ note'[w].pc \notin {"run", "read"} /\ (marked(w)' <=> marked(w)) /\ (live(w)' => live(w))
                           /\ note'[w].row.etag = 0 \/ note'[w].row = note[w].row
  BY Ended, Records DEF Stepping, marked, live
<1>4. Known'
  BY <1>1, <1>2, <1>3, SyncFacts, Records DEF Stepping, Known
<1>5. AllFull => AllFull'
  BY <1>1, <1>2, <1>3, Records DEF AllFull, full
<1>6. ASSUME Orderly PROVE Orderly'
  <2>1. NotesNeedEngine' /\ PullsWhenClosed' /\ OnePull' /\ WritesLast'
    BY <1>1, <1>2, <1>3, <1>6 DEF Orderly, NotesNeedEngine, PullsWhenClosed, OnePull, WritesLast, Pulling
  <2>2. MarksAreSeen' /\ PullsSeeMarks' /\ Replaceable' /\ MarkedSinceSnapshot'
    BY <1>1, <1>2, <1>3, <1>6 DEF Orderly, MarksAreSeen, PullsSeeMarks, Replaceable, MarkedSinceSnapshot
  <2> QED
    BY <2>1, <2>2 DEF Orderly
<1> QED
  BY <1>4, <1>5, <1>6 DEF Kept

LEMMA TheyPushStep == ASSUME Stepping, TheyPush PROVE Kept
<1>1. /\ world.shared
      /\ object'.etag = object.etag + 1 /\ object'.content = object.content \cup {Theirs}
      /\ UNCHANGED <<world, row, local, engine, opener, note, push, phase>>
  BY DEF TheyPush
<1>2. Known'
  BY <1>1, SyncFacts DEF Stepping, Known, State
<1>3. AllFull => AllFull'
  BY <1>1, SyncFacts DEF Stepping, Known, AllFull, full, State
<1>4. ASSUME Orderly PROVE Orderly'
  <2>1. NotesNeedEngine' /\ PullsWhenClosed' /\ OnePull' /\ WritesLast'
    BY <1>1, <1>4 DEF Orderly, NotesNeedEngine, PullsWhenClosed, OnePull, WritesLast, live
  <2>2. MarksAreSeen' /\ PullsSeeMarks' /\ Replaceable' /\ MarkedSinceSnapshot'
    BY <1>1, <1>4 DEF Orderly, MarksAreSeen, PullsSeeMarks, Replaceable, MarkedSinceSnapshot, marked
  <2> QED
    BY <2>1, <2>2 DEF Orderly
<1> QED
  BY <1>2, <1>3, <1>4 DEF Kept

-----------------------------------------------------------------------------
LEMMA StepKeeps == ASSUME Stepping, [CloudNext]_cloudVars PROVE Kept
<1>1. ASSUME NEW o \in Opener, OpenStep(o) PROVE Kept
  BY <1>1, ReadRowStep, PeekStep, HeadStep, PullStep, DownloadStep, DownloadedStep, OpenFileStep DEF OpenStep
<1>2. ASSUME NEW w \in Statement, Mutate(w) \/ MarkStep(w) PROVE Kept
  BY <1>2, MutateStep, ReadForMarkStep, MarkDirtyStep DEF MarkStep
<1>3. PushStep \/ UploadFails \/ SyncNow => Kept
  BY BeginStep, PushReadsStep, NothingToPushStep, SnapshotStep, UploadStep, UploadFailsStep, UploadedStep DEF PushStep
<1>4. Evict \/ Shutdown \/ Exit \/ Crash \/ TheyPush => Kept
  BY EvictStep, BeginStep, EndStep, TheyPushStep
<1>5. CASE UNCHANGED cloudVars
  <2>1. Known' /\ (AllFull => AllFull')
    BY <1>5 DEF Stepping, cloudVars, Known, AllFull, full
  <2>2. Orderly => NotesNeedEngine' /\ PullsWhenClosed' /\ OnePull' /\ WritesLast'
    BY <1>5 DEF Orderly, cloudVars, NotesNeedEngine, PullsWhenClosed, OnePull, WritesLast, live
  <2>3. Orderly => MarksAreSeen' /\ PullsSeeMarks' /\ Replaceable' /\ MarkedSinceSnapshot'
    BY <1>5 DEF Orderly, cloudVars, MarksAreSeen, PullsSeeMarks, Replaceable, MarkedSinceSnapshot, marked
  <2> QED
    BY <2>1, <2>2, <2>3 DEF Orderly, Kept
<1> QED
  BY <1>1, <1>2, <1>3, <1>4, <1>5 DEF CloudNext

LEMMA SyncInit == ASSUME CloudInit PROVE SyncInv
<1>1. /\ row = NeverSynced /\ local = NoFile /\ object.etag = 0 /\ object.content = {}
      /\ ~engine /\ push = NoPush /\ phase = "up"
      /\ \A o \in Opener : opener[o] = AtRest
      /\ \A w \in Statement : note[w] = AtRest
  BY DEF CloudInit
<1>2. SyncTypes /\ AtRest.etag = 0
  BY SyncTypesInit DEF AtRest
<1>3. Known
  BY <1>1, <1>2, Records DEF Known
<1>4. AllFull
  BY <1>1, <1>2, Records DEF AllFull, full
<1>5. Orderly
  BY <1>1, <1>2, Records DEF Orderly, NotesNeedEngine, PullsWhenClosed, OnePull, WritesLast, MarksAreSeen,
       PullsSeeMarks, Replaceable, MarkedSinceSnapshot, marked, live, Pulling
<1> QED
  BY <1>2, <1>3, <1>4, <1>5 DEF SyncInv

LEMMA SyncNext == ASSUME SyncInv, [CloudNext]_cloudVars PROVE SyncInv'
<1>1. SyncTypes'
  BY SyncTypesNext DEF SyncInv
<1>2. Kept
  BY <1>1, StepKeeps DEF SyncInv, Stepping
<1>3. world' = world /\ slips \subseteq slips'
  BY SlipsGrow
<1>4. ("overlapped" \notin slips' => "overlapped" \notin slips) /\ (orderly' => orderly)
  BY <1>3 DEF orderly
<1> QED
  BY <1>1, <1>2, <1>4 DEF SyncInv, Kept

LEMMA SyncInvariant == CloudSpec => []SyncInv
<1>1. CloudInit => SyncInv
  BY SyncInit
<1>2. SyncInv /\ [CloudNext]_cloudVars => SyncInv'
  BY SyncNext
<1> QED
  BY <1>1, <1>2, PTL DEF CloudSpec

-----------------------------------------------------------------------------
(* Rows, files, objects, requests, statements and pushes have the types the    *)
(* code gives them, and an open engine has its file.                         *)
THEOREM SyncTypeCorrect == CloudSpec => []CloudTypeOK
<1>1. SyncInv => CloudTypeOK
  BY DEF SyncInv, SyncTypes
<1> QED
  BY <1>1, SyncInvariant, PTL

(* While nobody else writes the object, what markDirty() has noted stays in the  *)
(* working copy, whatever is pulled, pushed, fails or crashes, for any number of  *)
(* requests and statements, until two requests pull at once or an eviction or    *)
(* the shutdown meets another request (WorkspaceCloudSync.pull, doPush).        *)
THEOREM MarkedWritesAreKept == CloudSpec => MarkedIsKept
<1>1. SyncInv /\ [CloudNext]_cloudVars =>
        [\A w \in Statement : /\ ~world.shared /\ slips \cap {"crowded", "hurried"} = {}
                              /\ note[w].pc = "marked" /\ local # NoFile /\ w \in local
           => w \in local']_cloudVars
  <2>1. SUFFICES ASSUME SyncInv, [CloudNext]_cloudVars,
                        NEW w \in Statement, ~world.shared, slips \cap {"crowded", "hurried"} = {},
                        note[w].pc = "marked", local # NoFile, w \in local
                 PROVE  w \in local'
    OBVIOUS
  <2>2. Orderly
    BY <2>1 DEF SyncInv, orderly
  <2>3. ASSUME NEW o \in Opener, Download(o) PROVE w \in local'
    BY <2>1, <2>2, <2>3 DEF Download, at, Orderly, Replaceable, marked
  <2>4. ASSUME NEW o \in Opener, OpenStep(o), ~Download(o) PROVE w \in local'
    BY <2>1, <2>4 DEF OpenStep, ReadRow, Peek, Head, Pull, Downloaded, Open
  <2>5. CASE \E v \in Statement : Mutate(v) \/ MarkStep(v)
    BY <2>1, <2>5 DEF Mutate, MarkStep, ReadForMark, MarkDirty
  <2>6. CASE PushStep \/ UploadFails \/ SyncNow
    BY <2>1, <2>6 DEF PushStep, TimerFires, PushReads, NothingToPush, Snapshot, Upload, Uploaded, UploadFails, SyncNow
  <2>7. CASE Evict \/ Shutdown \/ Exit \/ Crash \/ TheyPush \/ UNCHANGED cloudVars
    BY <2>1, <2>7 DEF Evict, Shutdown, Exit, Crash, TheyPush, cloudVars
  <2> QED
    BY <2>1, <2>3, <2>4, <2>5, <2>6, <2>7 DEF CloudNext
<1> QED
  BY <1>1, SyncInvariant, PTL DEF CloudSpec, MarkedIsKept

(* A pull replaces a working copy only by an object that has its marked writes,  *)
(* whatever another instance pushes and whatever fails or crashes, for any       *)
(* number of requests and statements, until a push has cleared the mark of a     *)
(* write it did not have or a request, an eviction or the shutdown has met       *)
(* another request (WorkspaceCloudSync.pull).                                *)
THEOREM PullsClobberNothing == CloudSpec => NoClobber
<1>1. SyncInv => [\A o \in Opener : slips \subseteq {"overlapped"} /\ Replaced(o) => MarkedIsThere]_cloudVars
  <2>1. SUFFICES ASSUME SyncInv, NEW o \in Opener, slips \subseteq {"overlapped"}, at(o, "download")
                 PROVE  MarkedIsThere
    BY DEF Replaced
  <2>2. Orderly
    BY <2>1 DEF SyncInv, orderly
  <2> QED
    BY <2>1, <2>2 DEF Orderly, Replaceable, MarkedIsThere, marked, at
<1> QED
  BY <1>1, SyncInvariant, PTL DEF CloudSpec, NoClobber

(* A working copy that is opened as in sync holds all the object does, whoever   *)
(* writes the object, fails or crashes, for any number of requests and           *)
(* statements, until a pull replaces the file that a push is uploading           *)
(* (WorkspaceCloudSync.pull).                                                *)
THEOREM InSyncIsComplete == CloudSpec => []InSyncHoldsAll
<1>1. SyncInv => InSyncHoldsAll
  BY DEF SyncInv, AllFull, full, InSyncHoldsAll
<1> QED
  BY <1>1, SyncInvariant, PTL
=============================================================================
