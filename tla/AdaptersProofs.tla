---------------------------- MODULE AdaptersProofs ----------------------------
(***************************************************************************)
(* Proofs about LocApiAdapters, for any number of adapters and slots, any  *)
(* event masks and any load.  Nothing is promised once two owners have     *)
(* changed the array at once (crossed), so every part of the invariant is  *)
(* stated for the runs in which none has.                                  *)
(***************************************************************************)
EXTENDS LocApiAdapters, SequenceTheorems, TLAPS

Types ==
    /\ mLocAdapters \in [Slots -> Adapters \cup {NULL}]
    /\ mEvtMask \in [Adapters -> SUBSET Events]
    /\ pc \in [Adapters -> Places]
    /\ tmp \in [Adapters -> [i : 0 .. MAX_ADAPTERS, mask : SUBSET Events,
                             next : {"idle", "gone"}]]
    /\ registered \in SUBSET Adapters
    /\ msgq \in Seq([kind : {"LocOpenMsg", "LocSsrMsg"}, mask : SUBSET Events])
    /\ mt \in {"idle", "reopen"}
    /\ handle \in [st : {"closed", "open", "stale"}, mask : SUBSET Events]
    /\ modem \in {"up", "down", "back"}
    /\ loop \in [at : {"idle", "check", "call", "end"}, kind : {"all", "first"},
                 i : Nat \ {0}, told : Seq(Adapters \cup {NULL}), taken : Nat,
                 wild : BOOLEAN, present : SUBSET Adapters, disturbed : BOOLEAN]
    /\ loop.at = "call" => loop.i \in Slots

-----------------------------------------------------------------------------
(***************************************************************************)
(* The array.  Between the three accesses of removeAdapter it has a hole,  *)
(* or its last adapter twice; otherwise it is filled from the first slot   *)
(* with the registered adapters, each once.  An owner that is about to     *)
(* store has found the first hole, and nobody else changes the array       *)
(* meanwhile.                                                              *)
(***************************************************************************)
Filled(L) == \A i \in Slots : mLocAdapters[i] # NULL <=> i <= L
Distinct(S) ==
    \A i, j \in S : mLocAdapters[i] = mLocAdapters[j] /\ mLocAdapters[i] # NULL => i = j
Holds(S) == \A a \in Adapters : a \in registered <=> \E i \in S : mLocAdapters[i] = a

Compact(L) == Filled(L) /\ Distinct(Slots) /\ Holds(Slots)

Holed(L, p) ==
    /\ p <= L
    /\ \A i \in Slots : mLocAdapters[i] # NULL <=> i <= L /\ i # p
    /\ Distinct(Slots) /\ Holds(Slots)

Doubled(L) ==
    /\ \A i \in Slots \ {L} : mLocAdapters[i] # NULL <=> i < L
    /\ Distinct(Slots \ {L}) /\ Holds(Slots \ {L})

Compacting == \E a \in Adapters : pc[a] \in {"fill", "trim"}

AloneInv == \A a, b \in Adapters : Changing(a) /\ Changing(b) => a = b

ShapeInv ==
    /\ ~ Compacting => \E L \in 0 .. MAX_ADAPTERS : Compact(L)
    /\ \A a \in Adapters :
          /\ pc[a] = "store" => tmp[a].i \in Slots /\ Filled(tmp[a].i - 1)
          /\ pc[a] = "fill" => tmp[a].i \in Slots /\ \E L \in Slots : Holed(L, tmp[a].i)
          /\ pc[a] = "trim" => tmp[a].i \in Slots /\ Doubled(tmp[a].i)
          /\ pc[a] = "leave" /\ tmp[a].i = 1 => registered = {}

\* Where the owner of a registered adapter can be.
PlaceInv ==
    \A a \in registered :
        pc[a] \in {"announce", "idle", "renew"} \/ (pc[a] = "post" /\ tmp[a].next = "idle")

ArrayInv == Types /\ AloneInv /\ ShapeInv /\ PlaceInv

-----------------------------------------------------------------------------
(* What the walks over the array find. *)

LEMMA SlotsAre == /\ MAX_ADAPTERS \in Nat /\ MAX_ADAPTERS >= 1
                  /\ \A i : i \in Slots <=> i \in Nat /\ 1 <= i /\ i <= MAX_ADAPTERS
BY AdaptersAssumption DEF Slots

\* The first hole, or the place behind the array, is what FirstHole chooses.
LEMMA FirstHoleIs ==
    ASSUME NEW p \in 1 .. MAX_ADAPTERS + 1, p \in Slots => mLocAdapters[p] = NULL,
           \A j \in Slots : mLocAdapters[j] = NULL => p <= j
    PROVE  FirstHole = p
<1> USE SlotsAre
<1> DEFINE Good(i) == i \in Holes \cup {MAX_ADAPTERS + 1} /\ \A j \in Holes : i <= j
<1>1. Good(p) BY DEF Holes
<1>2. ASSUME NEW x \in 1 .. MAX_ADAPTERS + 1, Good(x) PROVE x = p
  <2>1. p <= x BY <1>2 DEF Holes
  <2>2. x <= p BY <1>2 DEF Holes
  <2> QED BY <2>1, <2>2
<1>3. FirstHole \in 1 .. MAX_ADAPTERS + 1 /\ Good(FirstHole)
  <2>1. \E i \in 1 .. MAX_ADAPTERS + 1 : Good(i) BY <1>1
  <2> HIDE DEF Good
  <2>2. FirstHole = CHOOSE i \in 1 .. MAX_ADAPTERS + 1 : Good(i) BY Zenon DEF FirstHole, Good
  <2> QED BY <2>1, <2>2, Zenon
<1> QED BY <1>2, <1>3

LEMMA FilledOnce ==
    ASSUME NEW L \in 0 .. MAX_ADAPTERS, NEW M \in 0 .. MAX_ADAPTERS, Filled(L), Filled(M)
    PROVE  L = M
<1> USE SlotsAre
<1>1. CASE L < M
  <2>1. M \in Slots BY <1>1
  <2> QED BY <1>1, <2>1 DEF Filled
<1>2. CASE M < L
  <2>1. L \in Slots BY <1>2
  <2> QED BY <1>2, <2>1 DEF Filled
<1> QED BY <1>1, <1>2

\* In a compact array every walk sees the registered adapters.
LEMMA CompactWalk ==
    ASSUME Types, NEW L \in 0 .. MAX_ADAPTERS, Compact(L)
    PROVE  FirstHole = L + 1 /\ Reached = registered
<1> USE SlotsAre
<1>1. FirstHole = L + 1
  <2>1. L + 1 \in 1 .. MAX_ADAPTERS + 1 OBVIOUS
  <2>2. L + 1 \in Slots => mLocAdapters[L + 1] = NULL BY DEF Compact, Filled
  <2>3. \A j \in Slots : mLocAdapters[j] = NULL => L + 1 <= j BY DEF Compact, Filled
  <2> QED BY <2>1, <2>2, <2>3, FirstHoleIs
<1>2. Reached = {mLocAdapters[i] : i \in 1 .. L} BY <1>1 DEF Reached
<1>3. ASSUME NEW i \in 1 .. L PROVE i \in Slots /\ mLocAdapters[i] \in Adapters
  <2>1. i \in Slots OBVIOUS
  <2>2. mLocAdapters[i] # NULL BY <2>1 DEF Compact, Filled
  <2>3. mLocAdapters \in [Slots -> Adapters \cup {NULL}] BY DEF Types
  <2> QED BY <2>1, <2>2, <2>3
<1>4. \A a \in Adapters : a \in registered <=> \E i \in 1 .. L : mLocAdapters[i] = a
  <2>1. ASSUME NEW a \in Adapters, NEW i \in Slots, mLocAdapters[i] = a PROVE i \in 1 .. L
    <3>1. mLocAdapters[i] # NULL BY <2>1, AdaptersAssumption
    <3> QED BY <3>1 DEF Compact, Filled
  <2> QED BY <1>3, <2>1 DEF Compact, Holds
<1>5. \A a \in Reached : a \in registered
  <2> SUFFICES ASSUME NEW i \in 1 .. L PROVE mLocAdapters[i] \in registered BY <1>2
  <2> QED BY <1>3, <1>4
<1>6. \A a \in registered : a \in Reached
  <2> SUFFICES ASSUME NEW a \in registered PROVE \E i \in 1 .. L : mLocAdapters[i] = a
    BY <1>2
  <2> QED BY <1>4 DEF Types
<1> QED BY <1>1, <1>5, <1>6

\* A walk never leaves the array, whatever state it is in.
LEMMA MaskType ==
    ASSUME ArrayInv
    PROVE  getEvtMask \in SUBSET Events
<1> USE SlotsAre DEF ArrayInv
<1>1. \E p \in 1 .. MAX_ADAPTERS + 1 : /\ p \in Slots => mLocAdapters[p] = NULL
                                       /\ \A j \in Slots : mLocAdapters[j] = NULL => p <= j
  <2>1. CASE ~ Compacting
    <3>1. PICK L \in 0 .. MAX_ADAPTERS : Compact(L) BY <2>1 DEF ShapeInv
    <3>2. L + 1 \in 1 .. MAX_ADAPTERS + 1 OBVIOUS
    <3>3. L + 1 \in Slots => mLocAdapters[L + 1] = NULL BY <3>1 DEF Compact, Filled
    <3>4. \A j \in Slots : mLocAdapters[j] = NULL => L + 1 <= j
      BY <3>1 DEF Compact, Filled
    <3> QED BY <3>2, <3>3, <3>4
  <2>2. ASSUME NEW a \in Adapters, pc[a] = "fill"
        PROVE  \E p \in 1 .. MAX_ADAPTERS + 1 :
                  /\ p \in Slots => mLocAdapters[p] = NULL
                  /\ \A j \in Slots : mLocAdapters[j] = NULL => p <= j
    <3>1. tmp[a].i \in Slots /\ \E L \in Slots : Holed(L, tmp[a].i) BY <2>2 DEF ShapeInv
    <3>2. PICK p \in Slots : p = tmp[a].i BY <3>1
    <3>3. PICK L \in Slots : Holed(L, p) BY <3>1, <3>2
    <3> QED BY <3>2, <3>3 DEF Holed
  <2>3. ASSUME NEW a \in Adapters, pc[a] = "trim"
        PROVE  \E p \in 1 .. MAX_ADAPTERS + 1 :
                  /\ p \in Slots => mLocAdapters[p] = NULL
                  /\ \A j \in Slots : mLocAdapters[j] = NULL => p <= j
    <3>1. tmp[a].i \in Slots /\ Doubled(tmp[a].i) BY <2>3 DEF ShapeInv
    <3>2. PICK L \in Slots : L = tmp[a].i BY <3>1
    <3>3. Doubled(L) BY <3>1, <3>2
    <3>4. CASE mLocAdapters[L] = NULL BY <3>3, <3>4 DEF Doubled
    <3>5. CASE mLocAdapters[L] # NULL
      <4>1. L + 1 \in 1 .. MAX_ADAPTERS + 1 OBVIOUS
      <4>2. L + 1 \in Slots => mLocAdapters[L + 1] = NULL BY <3>3 DEF Doubled
      <4>3. \A j \in Slots : mLocAdapters[j] = NULL => L + 1 <= j BY <3>3, <3>5 DEF Doubled
      <4> QED BY <4>1, <4>2, <4>3
    <3> QED BY <3>4, <3>5
  <2> QED BY <2>1, <2>2, <2>3 DEF Compacting
<1>2. PICK p \in 1 .. MAX_ADAPTERS + 1 : /\ p \in Slots => mLocAdapters[p] = NULL
                                         /\ \A j \in Slots : mLocAdapters[j] = NULL => p <= j
  BY <1>1
<1>3. FirstHole = p BY <1>2, FirstHoleIs
<1>4. ASSUME NEW i \in 1 .. p - 1 PROVE i \in Slots /\ mLocAdapters[i] \in Adapters
  <2>1. i \in Slots /\ ~ (p <= i) OBVIOUS
  <2>2. mLocAdapters[i] # NULL BY <1>2, <2>1
  <2>3. mLocAdapters \in [Slots -> Adapters \cup {NULL}] BY DEF Types
  <2> QED BY <2>1, <2>2, <2>3
<1>5. Reached \subseteq Adapters BY <1>3, <1>4 DEF Reached
<1> SUFFICES ASSUME NEW a \in Reached PROVE mEvtMask[a] \subseteq Events
  BY DEF getEvtMask
<1> QED BY <1>5 DEF Types

\* The scan for the last adapter, from the hole.
LEMMA LastIs ==
    ASSUME NEW L \in Slots, NEW p \in Slots, Holed(L, p)
    PROVE  LastFrom(p) = L
<1> USE SlotsAre
<1> DEFINE Good(i) == /\ \A k \in p + 1 .. i : mLocAdapters[k] # NULL
                      /\ i + 1 \in Slots => mLocAdapters[i + 1] = NULL
<1>1. L \in p .. MAX_ADAPTERS /\ Good(L) BY DEF Holed
<1>2. ASSUME NEW x \in p .. MAX_ADAPTERS, Good(x) PROVE x = L
  <2>1. CASE x < L
    <3>1. x + 1 \in Slots /\ x + 1 <= L /\ x + 1 # p BY <2>1
    <3> QED BY <1>2, <3>1 DEF Holed
  <2>2. CASE L < x
    <3>1. L + 1 \in p + 1 .. x /\ L + 1 \in Slots BY <1>1, <2>2
    <3> QED BY <1>2, <3>1 DEF Holed
  <2> QED BY <2>1, <2>2
<1>3. LastFrom(p) \in p .. MAX_ADAPTERS /\ Good(LastFrom(p))
  <2>1. \E i \in p .. MAX_ADAPTERS : Good(i) BY <1>1
  <2> HIDE DEF Good
  <2>2. LastFrom(p) = CHOOSE i \in p .. MAX_ADAPTERS : Good(i) BY Zenon DEF LastFrom, Good
  <2> QED BY <2>1, <2>2, Zenon
<1> QED BY <1>2, <1>3

\* A registered adapter is found where it stands.
LEMMA PlaceIs ==
    ASSUME Types, NEW L \in 0 .. MAX_ADAPTERS, Compact(L), NEW a \in registered
    PROVE  PlaceOf(a) \in 1 .. L /\ PlaceOf(a) \in Slots /\ mLocAdapters[PlaceOf(a)] = a
<1> USE SlotsAre
<1>1. FirstHole = L + 1 /\ a \in Reached BY CompactWalk
<1>2. \E i \in 1 .. FirstHole - 1 : mLocAdapters[i] = a BY <1>1 DEF Reached
<1>3. PlaceOf(a) \in 1 .. FirstHole - 1 /\ mLocAdapters[PlaceOf(a)] = a
  BY <1>2, Zenon DEF PlaceOf
<1> QED BY <1>1, <1>3

-----------------------------------------------------------------------------
(* The owners: what each access to the array does to it. *)

\* Nobody else changes the array while an owner begins to.
LEMMA NobodyElse ==
    ASSUME NEW a \in Adapters, Cross(a), ~ crossed'
    PROVE  \A b \in Adapters : b # a => ~ Changing(b)
BY DEF Cross

\* Moving to a place, with the locals of the others unchanged.
LEMMA MovesOne ==
    ASSUME Types, NEW a \in Adapters, NEW place \in Places, Goto(a, place),
           \A b \in Adapters : b # a => tmp'[b] = tmp[b]
    PROVE  /\ pc' \in [Adapters -> Places] /\ pc'[a] = place
           /\ \A b \in Adapters : b # a => pc'[b] = pc[b] /\ (Changing(b)' <=> Changing(b))
<1>1. pc' = [pc EXCEPT ![a] = place] /\ pc \in [Adapters -> Places] BY DEF Goto, Types
<1>2. pc'[a] = place /\ \A b \in Adapters : b # a => pc'[b] = pc[b] BY <1>1
<1> QED BY <1>1, <1>2 DEF Changing

\* A step that leaves the array and the other owners alone, and does not make
\* its owner change the array.
LEMMA StillArray ==
    ASSUME ArrayInv, Types', UNCHANGED <<mLocAdapters, registered>>, NEW a \in Adapters,
           pc[a] \notin {"fill", "trim"}, pc'[a] \notin {"store", "fill", "trim", "leave"},
           \A b \in Adapters : b # a => pc'[b] = pc[b] /\ tmp'[b] = tmp[b],
           a \in registered =>
               \/ pc'[a] \in {"announce", "idle", "renew"}
               \/ pc'[a] = "post" /\ tmp'[a].next = "idle"
    PROVE  ArrayInv'
<1> USE DEF ArrayInv
<1>1. AloneInv'
  <2>1. ~ Changing(a)' BY DEF Changing
  <2>2. \A b \in Adapters : b # a => (Changing(b)' <=> Changing(b)) BY DEF Changing
  <2> QED BY <2>1, <2>2 DEF AloneInv
<1>2. Compacting' <=> Compacting BY DEF Compacting
<1>3. \A L : (Filled(L)' <=> Filled(L)) /\ (Compact(L)' <=> Compact(L))
             /\ (Doubled(L)' <=> Doubled(L))
  BY DEF Filled, Compact, Doubled, Distinct, Holds
<1>4. \A L, p : Holed(L, p)' <=> Holed(L, p)
  BY DEF Holed, Distinct, Holds
<1>5. ShapeInv'
  <2>1. ~ Compacting' => \E L \in 0 .. MAX_ADAPTERS : Compact(L)'
    BY <1>2, <1>3 DEF ShapeInv
  <2>2. ASSUME NEW b \in Adapters, b # a
        PROVE  /\ pc'[b] = "store" => tmp'[b].i \in Slots /\ Filled(tmp[b].i - 1)'
               /\ pc'[b] = "fill" => tmp'[b].i \in Slots /\ \E L \in Slots : Holed(L, tmp[b].i)'
               /\ pc'[b] = "trim" => tmp'[b].i \in Slots /\ Doubled(tmp[b].i)'
               /\ pc'[b] = "leave" /\ tmp'[b].i = 1 => registered' = {}
    BY <1>3, <1>4, <2>2 DEF ShapeInv
  <2> QED BY <2>1, <2>2 DEF ShapeInv
<1>6. PlaceInv'
  <2> SUFFICES ASSUME NEW b \in registered
               PROVE  \/ pc'[b] \in {"announce", "idle", "renew"}
                      \/ pc'[b] = "post" /\ tmp'[b].next = "idle"
    BY DEF PlaceInv
  <2>1. b \in Adapters BY DEF Types
  <2> QED BY <2>1 DEF PlaceInv
<1> QED BY <1>1, <1>5, <1>6

\* AddFind finds the first free slot, or none, and nobody else is at it.
LEMMA AddFindArray ==
    ASSUME ArrayInv, NEW a \in Adapters, AddFind(a), ~ crossed'
    PROVE  ArrayInv'
<1> USE SlotsAre
<1>1. Types /\ AloneInv /\ ShapeInv /\ PlaceInv BY DEF ArrayInv
<1>2. \A b \in Adapters : b # a => ~ Changing(b) BY NobodyElse DEF AddFind
<1>3. ~ Compacting BY <1>2 DEF Compacting, Changing, AddFind
<1>4. PICK L \in 0 .. MAX_ADAPTERS : Compact(L) BY <1>1, <1>3 DEF ShapeInv
<1>5. FirstHole = L + 1 /\ a \notin registered
  BY <1>1, <1>4, CompactWalk DEF PlaceInv, AddFind
<1>6. CASE FirstHole \in Slots
  <2>1. tmp' = [tmp EXCEPT ![a].i = L + 1] /\ Goto(a, "store") /\ L + 1 \in Slots
    BY <1>5, <1>6 DEF AddFind
  <2>2. tmp \in [Adapters -> [i : 0 .. MAX_ADAPTERS, mask : SUBSET Events,
                              next : {"idle", "gone"}]]
    BY <1>1 DEF Types
  <2>3. /\ tmp' \in [Adapters -> [i : 0 .. MAX_ADAPTERS, mask : SUBSET Events,
                                  next : {"idle", "gone"}]]
        /\ tmp'[a].i = L + 1 /\ \A b \in Adapters : b # a => tmp'[b] = tmp[b]
    BY <2>1, <2>2
  <2>4. /\ pc' \in [Adapters -> Places] /\ pc'[a] = "store"
        /\ \A b \in Adapters : b # a => pc'[b] = pc[b] /\ (Changing(b)' <=> Changing(b))
    BY <1>1, <2>1, <2>3, MovesOne DEF Places
  <2>5. Types' BY <1>1, <2>3, <2>4 DEF AddFind, Types, task
  <2>6. AloneInv' BY <1>2, <2>4 DEF AloneInv
  <2>7. Compact(L)' /\ Filled(L)'
    BY <1>4 DEF AddFind, Compact, Filled, Distinct, Holds
  <2>8. ASSUME NEW b \in Adapters
        PROVE  /\ pc'[b] = "store" => tmp'[b].i \in Slots /\ Filled(tmp[b].i - 1)'
               /\ pc'[b] \notin {"fill", "trim"}
               /\ ~ (pc'[b] = "leave" /\ tmp'[b].i = 1)
    <3>1. CASE b = a
      <4>1. tmp'[b].i - 1 = L BY <2>3, <3>1
      <4> QED BY <2>1, <2>3, <2>4, <2>7, <3>1, <4>1
    <3>2. CASE b # a BY <1>2, <2>3, <2>4, <3>2 DEF Changing
    <3> QED BY <3>1, <3>2
  <2>9. ShapeInv' BY <2>7, <2>8 DEF ShapeInv
  <2>10. PlaceInv'
    <3> SUFFICES ASSUME NEW b \in registered
                 PROVE  \/ pc'[b] \in {"announce", "idle", "renew"}
                        \/ pc'[b] = "post" /\ tmp'[b].next = "idle"
      BY DEF PlaceInv, AddFind
    <3>1. b \in Adapters /\ b # a BY <1>1, <1>5 DEF Types
    <3> QED BY <1>1, <2>3, <2>4, <3>1 DEF PlaceInv
  <2> QED BY <2>5, <2>6, <2>9, <2>10 DEF ArrayInv
<1>7. CASE FirstHole \notin Slots
  <2>1. Goto(a, "idle") /\ tmp' = tmp BY <1>7 DEF AddFind
  <2>2. /\ pc' \in [Adapters -> Places] /\ pc'[a] = "idle"
        /\ \A b \in Adapters : b # a => pc'[b] = pc[b]
    BY <1>1, <2>1, MovesOne DEF Places
  <2>3. Types' BY <1>1, <2>1, <2>2 DEF AddFind, Types, task
  <2> QED BY <2>1, <2>2, <2>3, StillArray DEF AddFind
<1> QED BY <1>6, <1>7

\* AddStore puts the newcomer behind the others.
LEMMA AddStoreArray ==
    ASSUME ArrayInv, NEW a \in Adapters, AddStore(a)
    PROVE  ArrayInv'
<1> USE SlotsAre
<1>1. Types /\ AloneInv /\ ShapeInv /\ PlaceInv BY DEF ArrayInv
<1>2. Changing(a) /\ pc[a] = "store" BY DEF AddStore, Changing
<1>3. \A b \in Adapters : b # a => ~ Changing(b) BY <1>1, <1>2 DEF AloneInv
<1>4. ~ Compacting BY <1>2, <1>3 DEF Compacting, Changing
<1>5. PICK L \in 0 .. MAX_ADAPTERS : Compact(L) BY <1>1, <1>4 DEF ShapeInv
<1>6. L + 1 \in Slots /\ tmp[a].i = L + 1
  <2>1. tmp[a].i \in Slots /\ Filled(tmp[a].i - 1) BY <1>1, <1>2 DEF ShapeInv
  <2>2. PICK p \in Slots : p = tmp[a].i BY <2>1
  <2>3. p - 1 \in 0 .. MAX_ADAPTERS /\ Filled(p - 1) /\ Filled(L)
    BY <1>5, <2>1, <2>2 DEF Compact
  <2>4. p - 1 = L BY <2>3, FilledOnce
  <2> QED BY <2>2, <2>4
<1>7. mLocAdapters' = [mLocAdapters EXCEPT ![L + 1] = a] /\ a # NULL /\ a \notin registered
  BY <1>1, <1>2, <1>6, AdaptersAssumption DEF AddStore, PlaceInv
<1>8. mLocAdapters \in [Slots -> Adapters \cup {NULL}] /\ registered \in SUBSET Adapters
  BY <1>1 DEF Types
<1>9. /\ mLocAdapters' \in [Slots -> Adapters \cup {NULL}] /\ mLocAdapters'[L + 1] = a
      /\ \A i \in Slots : i # L + 1 => mLocAdapters'[i] = mLocAdapters[i]
      /\ mLocAdapters[L + 1] = NULL
  BY <1>5, <1>6, <1>7, <1>8 DEF Compact, Filled
<1>10. \A i \in Slots : mLocAdapters[i] # a
  BY <1>5, <1>7 DEF Compact, Holds
<1>11. Filled(L + 1)' BY <1>5, <1>7, <1>9 DEF Compact, Filled
<1>12. Distinct(Slots)' BY <1>5, <1>9, <1>10 DEF Compact, Distinct
<1>13. Holds(Slots)'
  <2> SUFFICES ASSUME NEW b \in Adapters
               PROVE  b \in registered' <=> \E i \in Slots : mLocAdapters'[i] = b
    BY DEF Holds
  <2>1. registered' = registered \cup {a} BY DEF AddStore
  <2>2. CASE b = a BY <1>6, <1>9, <2>1, <2>2
  <2>3. CASE b # a
    <3>1. b \in registered <=> \E i \in Slots : mLocAdapters[i] = b
      BY <1>5 DEF Compact, Holds
    <3>2. b # NULL BY AdaptersAssumption
    <3>3. \A i \in Slots : mLocAdapters'[i] = b <=> mLocAdapters[i] = b
      BY <1>9, <2>3, <3>2
    <3> QED BY <2>1, <2>3, <3>1, <3>3
  <2> QED BY <2>2, <2>3
<1>14. Compact(L + 1)' /\ L + 1 \in 0 .. MAX_ADAPTERS BY <1>6, <1>11, <1>12, <1>13 DEF Compact
<1>15. /\ tmp' = [tmp EXCEPT ![a] = NoLocals]
       /\ tmp' \in [Adapters -> [i : 0 .. MAX_ADAPTERS, mask : SUBSET Events,
                                 next : {"idle", "gone"}]]
       /\ \A b \in Adapters : b # a => tmp'[b] = tmp[b]
  BY <1>1 DEF AddStore, Types, NoLocals
<1>16. /\ pc' \in [Adapters -> Places] /\ pc'[a] = "announce"
       /\ \A b \in Adapters : b # a => pc'[b] = pc[b] /\ (Changing(b)' <=> Changing(b))
  BY <1>1, <1>15, MovesOne DEF AddStore, Places
<1>17. Types'
  <2>1. registered' \in SUBSET Adapters BY <1>8 DEF AddStore
  <2> QED BY <1>1, <1>9, <1>15, <1>16, <2>1 DEF AddStore, Types, task
<1>18. \A b \in Adapters : ~ Changing(b)' BY <1>3, <1>16 DEF Changing
<1>19. ShapeInv'
  <2>1. \A b \in Adapters : /\ pc'[b] \notin {"store", "fill", "trim"}
                            /\ ~ (pc'[b] = "leave" /\ tmp'[b].i = 1)
    BY <1>18 DEF Changing
  <2> QED BY <1>14, <2>1 DEF ShapeInv
<1>20. PlaceInv'
  <2> SUFFICES ASSUME NEW b \in registered'
               PROVE  \/ pc'[b] \in {"announce", "idle", "renew"}
                      \/ pc'[b] = "post" /\ tmp'[b].next = "idle"
    BY DEF PlaceInv
  <2>1. b = a \/ (b # a /\ b \in registered /\ b \in Adapters) BY <1>8 DEF AddStore
  <2> QED BY <1>1, <1>15, <1>16, <2>1 DEF PlaceInv
<1> QED BY <1>17, <1>18, <1>19, <1>20 DEF ArrayInv, AloneInv

LEMMA DisturbType ==
    ASSUME Types, Disturb
    PROVE  /\ loop' \in [at : {"idle", "check", "call", "end"}, kind : {"all", "first"},
                         i : Nat \ {0}, told : Seq(Adapters \cup {NULL}), taken : Nat,
                         wild : BOOLEAN, present : SUBSET Adapters, disturbed : BOOLEAN]
           /\ loop'.at = loop.at /\ (loop.at # "idle" => loop'.disturbed)
           /\ loop'.at = "call" => loop'.i \in Slots
<1>1. loop \in [at : {"idle", "check", "call", "end"}, kind : {"all", "first"},
                i : Nat \ {0}, told : Seq(Adapters \cup {NULL}), taken : Nat,
                wild : BOOLEAN, present : SUBSET Adapters, disturbed : BOOLEAN]
  BY DEF Types
<1>2. loop.at = "call" => loop.i \in Slots BY DEF Types
<1> QED BY <1>1, <1>2 DEF Disturb

\* RemoveClear makes the hole, if the adapter had a slot.
LEMMA RemoveClearArray ==
    ASSUME ArrayInv, NEW a \in Adapters, RemoveClear(a), ~ crossed'
    PROVE  /\ ArrayInv'
           /\ \/ loop'.at = loop.at /\ (loop.at # "idle" => loop'.disturbed)
              \/ /\ UNCHANGED <<mLocAdapters, registered, loop>>
                 /\ pc'[a] = "gone" /\ a \notin registered
<1> USE SlotsAre
<1>1. Types /\ AloneInv /\ ShapeInv /\ PlaceInv BY DEF ArrayInv
<1>2. \A b \in Adapters : b # a => ~ Changing(b) BY NobodyElse DEF RemoveClear
<1>3. pc[a] = "idle" /\ registered' = registered \ {a} BY DEF RemoveClear
<1>4. ~ Compacting BY <1>2, <1>3 DEF Compacting, Changing
<1>5. PICK L \in 0 .. MAX_ADAPTERS : Compact(L) BY <1>1, <1>4 DEF ShapeInv
<1>6. Reached = registered BY <1>1, <1>5, CompactWalk
<1>7. CASE a \in Reached
  <2>1. PlaceOf(a) \in 1 .. L /\ PlaceOf(a) \in Slots /\ mLocAdapters[PlaceOf(a)] = a
    BY <1>1, <1>5, <1>6, <1>7, PlaceIs
  <2>2. PICK p \in Slots : p = PlaceOf(a) /\ p <= L /\ mLocAdapters[p] = a BY <2>1
  <2>3. /\ mLocAdapters' = [mLocAdapters EXCEPT ![p] = NULL]
        /\ tmp' = [tmp EXCEPT ![a].i = p] /\ Goto(a, "fill") /\ Disturb
    BY <1>7, <2>2 DEF RemoveClear
  <2>4. mLocAdapters \in [Slots -> Adapters \cup {NULL}] /\ registered \in SUBSET Adapters
    BY <1>1 DEF Types
  <2>5. /\ mLocAdapters' \in [Slots -> Adapters \cup {NULL}] /\ mLocAdapters'[p] = NULL
        /\ \A i \in Slots : i # p => mLocAdapters'[i] = mLocAdapters[i]
    BY <2>3, <2>4
  <2>6. L \in Slots BY <2>2
  <2>7. Holed(L, p)'
    <3>1. \A i \in Slots : mLocAdapters'[i] # NULL <=> i <= L /\ i # p
      BY <1>5, <2>5 DEF Compact, Filled
    <3>2. Distinct(Slots)' BY <1>5, <2>5 DEF Compact, Distinct
    <3>3. Holds(Slots)'
      <4> SUFFICES ASSUME NEW b \in Adapters
                   PROVE  b \in registered' <=> \E i \in Slots : mLocAdapters'[i] = b
        BY DEF Holds
      <4>1. b # NULL BY AdaptersAssumption
      <4>2. b \in registered <=> \E i \in Slots : mLocAdapters[i] = b
        BY <1>5 DEF Compact, Holds
      <4>3. CASE b = a
        <5>1. \A i \in Slots : mLocAdapters[i] = a => i = p
          BY <1>5, <2>2, <4>1, <4>3 DEF Compact, Distinct
        <5> QED BY <1>3, <2>5, <4>1, <4>3, <5>1
      <4>4. CASE b # a
        <5>1. \A i \in Slots : mLocAdapters'[i] = b <=> mLocAdapters[i] = b
          BY <2>2, <2>5, <4>1, <4>4
        <5> QED BY <1>3, <4>2, <4>4, <5>1
      <4> QED BY <4>3, <4>4
    <3> QED BY <2>2, <3>1, <3>2, <3>3 DEF Holed
  <2>8. /\ tmp' \in [Adapters -> [i : 0 .. MAX_ADAPTERS, mask : SUBSET Events,
                                  next : {"idle", "gone"}]]
        /\ tmp'[a].i = p /\ \A b \in Adapters : b # a => tmp'[b] = tmp[b]
    <3>1. tmp \in [Adapters -> [i : 0 .. MAX_ADAPTERS, mask : SUBSET Events,
                                next : {"idle", "gone"}]]
      BY <1>1 DEF Types
    <3> QED BY <2>3, <3>1
  <2>9. /\ pc' \in [Adapters -> Places] /\ pc'[a] = "fill"
        /\ \A b \in Adapters : b # a => pc'[b] = pc[b] /\ (Changing(b)' <=> Changing(b))
    BY <1>1, <2>3, <2>8, MovesOne DEF Places
  <2>10. Types'
    <3>1. registered' \in SUBSET Adapters BY <1>3, <2>4
    <3> QED BY <1>1, <2>3, <2>5, <2>8, <2>9, <3>1, DisturbType DEF RemoveClear, Types, task
  <2>11. AloneInv' BY <1>2, <2>9 DEF AloneInv
  <2>12. ASSUME NEW b \in Adapters, b # a
         PROVE  /\ pc'[b] \notin {"store", "fill", "trim"}
                /\ ~ (pc'[b] = "leave" /\ tmp'[b].i = 1)
    BY <1>2, <2>8, <2>9, <2>12 DEF Changing
  <2>13. ShapeInv'
    <3>1. Compacting' BY <2>9 DEF Compacting
    <3>2. tmp'[a].i \in Slots /\ \E M \in Slots : Holed(M, tmp[a].i)'
      BY <2>6, <2>7, <2>8
    <3> QED BY <2>9, <2>12, <3>1, <3>2 DEF ShapeInv
  <2>14. PlaceInv'
    <3> SUFFICES ASSUME NEW b \in registered'
                 PROVE  \/ pc'[b] \in {"announce", "idle", "renew"}
                        \/ pc'[b] = "post" /\ tmp'[b].next = "idle"
      BY DEF PlaceInv
    <3>1. b # a /\ b \in registered /\ b \in Adapters BY <1>3, <2>4
    <3> QED BY <1>1, <2>8, <2>9, <3>1 DEF PlaceInv
  <2> QED BY <1>1, <2>3, <2>10, <2>11, <2>13, <2>14, DisturbType DEF ArrayInv
<1>8. CASE a \notin Reached
  <2>1. UNCHANGED <<mLocAdapters, tmp, loop>> /\ Goto(a, "gone")
    BY <1>8 DEF RemoveClear
  <2>2. registered' = registered /\ a \notin registered BY <1>3, <1>6, <1>8
  <2>3. /\ pc' \in [Adapters -> Places] /\ pc'[a] = "gone"
        /\ \A b \in Adapters : b # a => pc'[b] = pc[b]
    BY <1>1, <2>1, MovesOne DEF Places
  <2>4. Types' BY <1>1, <2>1, <2>2, <2>3 DEF RemoveClear, Types, task
  <2> QED BY <1>3, <2>1, <2>2, <2>3, <2>4, StillArray
<1> QED BY <1>7, <1>8

\* RemoveFill copies the last adapter into the hole.
LEMMA RemoveFillArray ==
    ASSUME ArrayInv, NEW a \in Adapters, RemoveFill(a)
    PROVE  ArrayInv'
<1> USE SlotsAre
<1>1. Types /\ AloneInv /\ ShapeInv /\ PlaceInv BY DEF ArrayInv
<1>2. Changing(a) /\ pc[a] = "fill" BY DEF RemoveFill, Changing
<1>3. \A b \in Adapters : b # a => ~ Changing(b) BY <1>1, <1>2 DEF AloneInv
<1>4. tmp[a].i \in Slots /\ \E L \in Slots : Holed(L, tmp[a].i) BY <1>1, <1>2 DEF ShapeInv
<1>5. PICK p \in Slots : p = tmp[a].i BY <1>4
<1>6. PICK L \in Slots : Holed(L, p) BY <1>4, <1>5
<1>7. LastFrom(p) = L BY <1>6, LastIs
<1>8. /\ mLocAdapters' = [mLocAdapters EXCEPT ![p] = mLocAdapters[L]]
      /\ tmp' = [tmp EXCEPT ![a].i = L] /\ Goto(a, "trim") /\ Disturb /\ registered' = registered
  BY <1>5, <1>7 DEF RemoveFill
<1>9. mLocAdapters \in [Slots -> Adapters \cup {NULL}] BY <1>1 DEF Types
<1>10. /\ mLocAdapters' \in [Slots -> Adapters \cup {NULL}]
       /\ mLocAdapters'[p] = mLocAdapters[L]
       /\ \A i \in Slots : i # p => mLocAdapters'[i] = mLocAdapters[i]
       /\ p <= L
  BY <1>6, <1>8, <1>9 DEF Holed
<1>11. Doubled(L)'
  <2>1. \A i \in Slots \ {L} : mLocAdapters'[i] # NULL <=> i < L
    <3> SUFFICES ASSUME NEW i \in Slots, i # L PROVE mLocAdapters'[i] # NULL <=> i < L
      OBVIOUS
    <3>1. CASE i = p BY <1>6, <1>10, <3>1 DEF Holed
    <3>2. CASE i # p BY <1>6, <1>10, <3>2 DEF Holed
    <3> QED BY <3>1, <3>2
  <2>2. Distinct(Slots \ {L})'
    <3> SUFFICES ASSUME NEW i \in Slots, i # L, NEW j \in Slots, j # L,
                        mLocAdapters'[i] = mLocAdapters'[j], mLocAdapters'[i] # NULL
                 PROVE  i = j
      BY DEF Distinct
    <3>1. CASE i = p BY <1>6, <1>10, <3>1 DEF Holed, Distinct
    <3>2. CASE i # p BY <1>6, <1>10, <3>2 DEF Holed, Distinct
    <3> QED BY <3>1, <3>2
  <2>3. Holds(Slots \ {L})'
    <3> SUFFICES ASSUME NEW b \in Adapters
                 PROVE  b \in registered <=> \E i \in Slots \ {L} : mLocAdapters'[i] = b
      BY <1>8 DEF Holds
    <3>1. b # NULL /\ mLocAdapters[p] = NULL BY <1>6, AdaptersAssumption DEF Holed
    <3>2. b \in registered <=> \E i \in Slots : mLocAdapters[i] = b BY <1>6 DEF Holed, Holds
    <3>3. ASSUME NEW i \in Slots, mLocAdapters[i] = b
          PROVE  \E k \in Slots \ {L} : mLocAdapters'[k] = b
      <4>1. i # p BY <3>1, <3>3
      <4>2. CASE i = L
        <5>1. p # L BY <4>1, <4>2
        <5> QED BY <1>10, <3>3, <4>2, <5>1
      <4>3. CASE i # L BY <1>10, <3>3, <4>1, <4>3
      <4> QED BY <4>2, <4>3
    <3>4. ASSUME NEW k \in Slots, k # L, mLocAdapters'[k] = b
          PROVE  \E i \in Slots : mLocAdapters[i] = b
      BY <1>10, <3>4
    <3> QED BY <3>2, <3>3, <3>4
  <2> QED BY <2>1, <2>2, <2>3 DEF Doubled
<1>12. /\ tmp' \in [Adapters -> [i : 0 .. MAX_ADAPTERS, mask : SUBSET Events,
                                 next : {"idle", "gone"}]]
       /\ tmp'[a].i = L /\ \A b \in Adapters : b # a => tmp'[b] = tmp[b]
  <2>1. tmp \in [Adapters -> [i : 0 .. MAX_ADAPTERS, mask : SUBSET Events,
                              next : {"idle", "gone"}]]
    BY <1>1 DEF Types
  <2> QED BY <1>8, <2>1
<1>13. /\ pc' \in [Adapters -> Places] /\ pc'[a] = "trim"
       /\ \A b \in Adapters : b # a => pc'[b] = pc[b] /\ (Changing(b)' <=> Changing(b))
  BY <1>1, <1>8, <1>12, MovesOne DEF Places
<1>14. Types'
  BY <1>1, <1>8, <1>10, <1>12, <1>13, DisturbType DEF RemoveFill, Types, task
<1>15. AloneInv' BY <1>3, <1>13 DEF AloneInv
<1>16. ASSUME NEW b \in Adapters, b # a
       PROVE  /\ pc'[b] \notin {"store", "fill", "trim"}
              /\ ~ (pc'[b] = "leave" /\ tmp'[b].i = 1)
  BY <1>3, <1>12, <1>13, <1>16 DEF Changing
<1>17. ShapeInv'
  <2>1. Compacting' BY <1>13 DEF Compacting
  <2>2. tmp'[a].i \in Slots /\ Doubled(tmp[a].i)' BY <1>11, <1>12
  <2> QED BY <1>13, <1>16, <2>1, <2>2 DEF ShapeInv
<1>18. PlaceInv'
  <2> SUFFICES ASSUME NEW b \in registered
               PROVE  \/ pc'[b] \in {"announce", "idle", "renew"}
                      \/ pc'[b] = "post" /\ tmp'[b].next = "idle"
    BY <1>8 DEF PlaceInv
  <2>1. b \in Adapters BY <1>1 DEF Types
  <2>2. b # a BY <1>1, <1>2 DEF PlaceInv
  <2> QED BY <1>1, <1>12, <1>13, <2>1, <2>2 DEF PlaceInv
<1> QED BY <1>14, <1>15, <1>17, <1>18 DEF ArrayInv

\* RemoveTrim takes the copy away: the array is compact again.
LEMMA RemoveTrimArray ==
    ASSUME ArrayInv, NEW a \in Adapters, RemoveTrim(a)
    PROVE  ArrayInv'
<1> USE SlotsAre
<1>1. Types /\ AloneInv /\ ShapeInv /\ PlaceInv BY DEF ArrayInv
<1>2. Changing(a) /\ pc[a] = "trim" BY DEF RemoveTrim, Changing
<1>3. \A b \in Adapters : b # a => ~ Changing(b) BY <1>1, <1>2 DEF AloneInv
<1>4. tmp[a].i \in Slots /\ Doubled(tmp[a].i) BY <1>1, <1>2 DEF ShapeInv
<1>5. PICK L \in Slots : L = tmp[a].i BY <1>4
<1>6. Doubled(L) BY <1>4, <1>5
<1>7. /\ mLocAdapters' = [mLocAdapters EXCEPT ![L] = NULL]
      /\ Goto(a, "leave") /\ Disturb /\ UNCHANGED <<registered, tmp>>
  BY <1>5 DEF RemoveTrim
<1>8. mLocAdapters \in [Slots -> Adapters \cup {NULL}] BY <1>1 DEF Types
<1>9. /\ mLocAdapters' \in [Slots -> Adapters \cup {NULL}] /\ mLocAdapters'[L] = NULL
      /\ \A i \in Slots : i # L => mLocAdapters'[i] = mLocAdapters[i]
  BY <1>7, <1>8
<1>10. L - 1 \in 0 .. MAX_ADAPTERS BY <1>5
<1>11. Compact(L - 1)'
  <2>1. Filled(L - 1)'
    <3> SUFFICES ASSUME NEW i \in Slots PROVE mLocAdapters'[i] # NULL <=> i <= L - 1
      BY <1>5, <1>7 DEF Filled
    <3>1. CASE i = L BY <1>9, <3>1
    <3>2. CASE i # L BY <1>6, <1>9, <3>2 DEF Doubled
    <3> QED BY <3>1, <3>2
  <2>2. Distinct(Slots)' BY <1>6, <1>9 DEF Doubled, Distinct
  <2>3. Holds(Slots)'
    <3> SUFFICES ASSUME NEW b \in Adapters
                 PROVE  b \in registered <=> \E i \in Slots : mLocAdapters'[i] = b
      BY <1>7 DEF Holds
    <3>1. b # NULL BY AdaptersAssumption
    <3>2. b \in registered <=> \E i \in Slots \ {L} : mLocAdapters[i] = b
      BY <1>6 DEF Doubled, Holds
    <3> QED BY <1>9, <3>1, <3>2
  <2> QED BY <2>1, <2>2, <2>3 DEF Compact
<1>12. /\ pc' \in [Adapters -> Places] /\ pc'[a] = "leave"
       /\ \A b \in Adapters : b # a => pc'[b] = pc[b] /\ (Changing(b)' <=> Changing(b))
  BY <1>1, <1>7, MovesOne DEF Places
<1>13. Types'
  BY <1>1, <1>7, <1>9, <1>12, DisturbType DEF RemoveTrim, Types, task
<1>14. AloneInv' BY <1>3, <1>12 DEF AloneInv
<1>15. ASSUME NEW b \in Adapters, b # a
       PROVE  /\ pc'[b] \notin {"store", "fill", "trim"}
              /\ ~ (pc'[b] = "leave" /\ tmp'[b].i = 1)
  BY <1>3, <1>7, <1>12, <1>15 DEF Changing
<1>16. ShapeInv'
  <2>1. tmp'[a].i = 1 => registered' = {}
    <3> SUFFICES ASSUME L = 1 PROVE registered = {} BY <1>5, <1>7
    <3>1. \A i \in Slots \ {L} : mLocAdapters[i] = NULL BY <1>6 DEF Doubled
    <3>2. \A b \in Adapters : b \notin registered
      BY <1>6, <3>1, AdaptersAssumption DEF Doubled, Holds
    <3> QED BY <1>1, <3>2 DEF Types
  <2>2. \E M \in 0 .. MAX_ADAPTERS : Compact(M)' BY <1>10, <1>11
  <2> QED BY <1>12, <1>15, <2>1, <2>2 DEF ShapeInv
<1>17. PlaceInv'
  <2> SUFFICES ASSUME NEW b \in registered
               PROVE  \/ pc'[b] \in {"announce", "idle", "renew"}
                      \/ pc'[b] = "post" /\ tmp'[b].next = "idle"
    BY <1>7 DEF PlaceInv
  <2>1. b \in Adapters BY <1>1 DEF Types
  <2>2. b # a BY <1>1, <1>2 DEF PlaceInv
  <2> QED BY <1>1, <1>7, <1>12, <2>1, <2>2 DEF PlaceInv
<1> QED BY <1>13, <1>14, <1>16, <1>17 DEF ArrayInv

-----------------------------------------------------------------------------
(* The owners' other steps, which only post what they have read. *)

LEMMA MessageType ==
    ASSUME Types, NEW mask \in SUBSET Events, NEW kind \in {"LocOpenMsg", "LocSsrMsg"}
    PROVE  /\ Message(kind, mask) \in [kind : {"LocOpenMsg", "LocSsrMsg"}, mask : SUBSET Events]
           /\ Append(msgq, Message(kind, mask))
                \in Seq([kind : {"LocOpenMsg", "LocSsrMsg"}, mask : SUBSET Events])
<1>1. Message(kind, mask) \in [kind : {"LocOpenMsg", "LocSsrMsg"}, mask : SUBSET Events]
  BY DEF Message
<1>2. msgq \in Seq([kind : {"LocOpenMsg", "LocSsrMsg"}, mask : SUBSET Events])
  BY DEF Types
<1> HIDE DEF Message
<1> QED BY <1>1, <1>2, AppendProperties

LEMMA AddAnnounceArray ==
    ASSUME ArrayInv, NEW a \in Adapters, AddAnnounce(a)
    PROVE  ArrayInv'
<1>1. Types /\ PlaceInv BY DEF ArrayInv
<1>2. mEvtMask[a] \in SUBSET Events BY <1>1 DEF Types
<1>3. msgq' \in Seq([kind : {"LocOpenMsg", "LocSsrMsg"}, mask : SUBSET Events])
  BY <1>1, <1>2, MessageType DEF AddAnnounce
<1>4. /\ pc' \in [Adapters -> Places] /\ pc'[a] = "idle"
      /\ \A b \in Adapters : b # a => pc'[b] = pc[b]
  BY <1>1, MovesOne DEF AddAnnounce, Places
<1>5. Types' BY <1>1, <1>3, <1>4 DEF AddAnnounce, Types
<1> QED BY <1>4, <1>5, StillArray DEF AddAnnounce

LEMMA UpdateMaskArray ==
    ASSUME ArrayInv, NEW a \in Adapters, NEW event \in Events, UpdateMask(a, event)
    PROVE  /\ ArrayInv' /\ pc'[a] = "renew"
           /\ \A b \in Adapters : b # a => mEvtMask'[b] = mEvtMask[b] /\ pc'[b] = pc[b]
<1>1. Types /\ PlaceInv BY DEF ArrayInv
<1>2. mEvtMask \in [Adapters -> SUBSET Events] BY <1>1 DEF Types
<1>3. \/ mEvtMask' = [mEvtMask EXCEPT ![a] = @ \cup {event}]
      \/ mEvtMask' = [mEvtMask EXCEPT ![a] = @ \ {event}]
  BY DEF UpdateMask
<1>4. mEvtMask' \in [Adapters -> SUBSET Events]
  <2>1. mEvtMask[a] \cup {event} \in SUBSET Events /\ mEvtMask[a] \ {event} \in SUBSET Events
    BY <1>2
  <2> QED BY <1>2, <1>3, <2>1
<1>5. \A b \in Adapters : b # a => mEvtMask'[b] = mEvtMask[b]
  BY <1>2, <1>3
<1>6. /\ pc' \in [Adapters -> Places] /\ pc'[a] = "renew"
      /\ \A b \in Adapters : b # a => pc'[b] = pc[b]
  BY <1>1, MovesOne DEF UpdateMask, Places
<1>7. Types' BY <1>1, <1>4, <1>6 DEF UpdateMask, Types, task
<1> QED BY <1>5, <1>6, <1>7, StillArray DEF UpdateMask

LEMMA RenewArray ==
    ASSUME ArrayInv, NEW a \in Adapters, Renew(a)
    PROVE  /\ ArrayInv' /\ pc'[a] = "post" /\ tmp'[a].mask = getEvtMask
           /\ \A b \in Adapters : b # a => tmp'[b] = tmp[b] /\ pc'[b] = pc[b]
<1>1. Types /\ PlaceInv BY DEF ArrayInv
<1>2. PICK m \in SUBSET Events : m = getEvtMask BY MaskType
<1>3. tmp' = [tmp EXCEPT ![a].mask = m, ![a].next = "idle"] BY <1>2 DEF Renew
<1>4. tmp \in [Adapters -> [i : 0 .. MAX_ADAPTERS, mask : SUBSET Events,
                            next : {"idle", "gone"}]]
  BY <1>1 DEF Types
<1>5. /\ tmp' \in [Adapters -> [i : 0 .. MAX_ADAPTERS, mask : SUBSET Events,
                                next : {"idle", "gone"}]]
      /\ tmp'[a].mask = m /\ tmp'[a].next = "idle"
      /\ \A b \in Adapters : b # a => tmp'[b] = tmp[b]
  BY <1>3, <1>4
<1>6. /\ pc' \in [Adapters -> Places] /\ pc'[a] = "post"
      /\ \A b \in Adapters : b # a => pc'[b] = pc[b]
  BY <1>1, <1>5, MovesOne DEF Renew, Places
<1>7. Types' BY <1>1, <1>5, <1>6 DEF Renew, Types, task
<1> QED BY <1>2, <1>5, <1>6, <1>7, StillArray DEF Renew

LEMMA PostArray ==
    ASSUME ArrayInv, NEW a \in Adapters, Post(a)
    PROVE  /\ ArrayInv'
           /\ \A b \in Adapters : b # a => tmp'[b] = tmp[b] /\ pc'[b] = pc[b]
<1>1. Types /\ PlaceInv BY DEF ArrayInv
<1>2. tmp \in [Adapters -> [i : 0 .. MAX_ADAPTERS, mask : SUBSET Events,
                            next : {"idle", "gone"}]]
  BY <1>1 DEF Types
<1>3. PICK n \in {"idle", "gone"} : n = tmp[a].next BY <1>2
<1>4. PICK m \in SUBSET Events : m = tmp[a].mask BY <1>2
<1>5. msgq' \in Seq([kind : {"LocOpenMsg", "LocSsrMsg"}, mask : SUBSET Events])
  BY <1>1, <1>4, MessageType DEF Post
<1>6. /\ tmp' \in [Adapters -> [i : 0 .. MAX_ADAPTERS, mask : SUBSET Events,
                                next : {"idle", "gone"}]]
      /\ \A b \in Adapters : b # a => tmp'[b] = tmp[b]
  BY <1>2, SlotsAre DEF Post, NoLocals
<1>7. Goto(a, n) /\ n \in Places BY <1>3 DEF Post, Places
<1>8. /\ pc' \in [Adapters -> Places] /\ pc'[a] = n
      /\ \A b \in Adapters : b # a => pc'[b] = pc[b]
  BY <1>1, <1>6, <1>7, MovesOne
<1>9. Types' BY <1>1, <1>5, <1>6, <1>8 DEF Post, Types
<1>10. a \in registered => n = "idle" BY <1>1, <1>3 DEF PlaceInv, Post
<1> QED BY <1>6, <1>8, <1>9, <1>10, StillArray DEF Post

LEMMA RemoveLeaveArray ==
    ASSUME ArrayInv, NEW a \in Adapters, RemoveLeave(a)
    PROVE  /\ ArrayInv' /\ a \notin registered
           /\ \A b \in Adapters : b # a => tmp'[b] = tmp[b] /\ pc'[b] = pc[b]
           /\ tmp[a].i # 1 => /\ pc'[a] = "post" /\ tmp'[a].mask = getEvtMask
                              /\ handle' = handle
<1>1. Types /\ PlaceInv BY DEF ArrayInv
<1>2. pc[a] = "leave" /\ a \notin registered BY <1>1 DEF PlaceInv, RemoveLeave
<1>3. tmp \in [Adapters -> [i : 0 .. MAX_ADAPTERS, mask : SUBSET Events,
                            next : {"idle", "gone"}]]
  BY <1>1 DEF Types
<1>4. CASE tmp[a].i = 1
  <2>1. /\ tmp' \in [Adapters -> [i : 0 .. MAX_ADAPTERS, mask : SUBSET Events,
                                  next : {"idle", "gone"}]]
        /\ \A b \in Adapters : b # a => tmp'[b] = tmp[b]
    BY <1>3, <1>4, SlotsAre DEF RemoveLeave, NoLocals
  <2>2. /\ pc' \in [Adapters -> Places] /\ pc'[a] = "gone"
        /\ \A b \in Adapters : b # a => pc'[b] = pc[b]
    BY <1>1, <1>4, <2>1, MovesOne DEF RemoveLeave, Places
  <2>3. handle' \in [st : {"closed", "open", "stale"}, mask : SUBSET Events]
    BY <1>4 DEF RemoveLeave, Closed
  <2>4. Types' BY <1>1, <2>1, <2>2, <2>3 DEF RemoveLeave, Types
  <2> QED BY <1>2, <1>4, <2>1, <2>2, <2>4, StillArray DEF RemoveLeave
<1>5. CASE tmp[a].i # 1
  <2>1. PICK m \in SUBSET Events : m = getEvtMask BY MaskType
  <2>2. tmp' = [tmp EXCEPT ![a] = [i |-> 0, mask |-> m, next |-> "gone"]]
    BY <1>5, <2>1 DEF RemoveLeave
  <2>3. /\ tmp' \in [Adapters -> [i : 0 .. MAX_ADAPTERS, mask : SUBSET Events,
                                  next : {"idle", "gone"}]]
        /\ tmp'[a].mask = m /\ \A b \in Adapters : b # a => tmp'[b] = tmp[b]
    BY <1>3, <2>2, SlotsAre
  <2>4. /\ pc' \in [Adapters -> Places] /\ pc'[a] = "post"
        /\ \A b \in Adapters : b # a => pc'[b] = pc[b]
    BY <1>1, <1>5, <2>3, MovesOne DEF RemoveLeave, Places
  <2>5. handle' = handle BY <1>5 DEF RemoveLeave
  <2>6. Types' BY <1>1, <2>3, <2>4, <2>5 DEF RemoveLeave, Types
  <2> QED BY <1>2, <2>1, <2>3, <2>4, <2>5, <2>6, StillArray DEF RemoveLeave
<1> QED BY <1>4, <1>5

-----------------------------------------------------------------------------
(* The MsgTask and the upcalls, which leave the array to its owners. *)

LEMMA StillOwners ==
    ASSUME ArrayInv, UNCHANGED array, Types'
    PROVE  ArrayInv'
BY DEF ArrayInv, array, AloneInv, ShapeInv, PlaceInv, Changing, Compacting, Filled, Distinct,
       Holds, Compact, Holed, Doubled

LEMMA OpenType ==
    ASSUME Types, NEW mask \in SUBSET Events
    PROVE  Open(handle, mask) \in [st : {"closed", "open", "stale"}, mask : SUBSET Events]
BY DEF Types, Open

\* The head of the queue.
LEMMA HeadIs ==
    ASSUME Types, msgq # <<>>
    PROVE  /\ Head(msgq) \in [kind : {"LocOpenMsg", "LocSsrMsg"}, mask : SUBSET Events]
           /\ Head(msgq) = msgq[1] /\ 1 \in DOMAIN msgq
           /\ Tail(msgq) \in Seq([kind : {"LocOpenMsg", "LocSsrMsg"}, mask : SUBSET Events])
           /\ \A n \in DOMAIN msgq : n # 1 => n - 1 \in DOMAIN Tail(msgq)
                                             /\ Tail(msgq)[n - 1] = msgq[n]
<1>1. msgq \in Seq([kind : {"LocOpenMsg", "LocSsrMsg"}, mask : SUBSET Events]) BY DEF Types
<1>2. Len(msgq) \in Nat /\ Len(msgq) # 0 /\ DOMAIN msgq = 1 .. Len(msgq) BY <1>1, EmptySeq
<1>3. /\ Head(msgq) = msgq[1] /\ Tail(msgq) \in Seq([kind : {"LocOpenMsg", "LocSsrMsg"}, mask : SUBSET Events])
      /\ Len(Tail(msgq)) = Len(msgq) - 1
      /\ \A i \in 1 .. Len(Tail(msgq)) : Tail(msgq)[i] = msgq[i + 1]
  BY <1>1, HeadTailProperties
<1>4. DOMAIN Tail(msgq) = 1 .. Len(Tail(msgq)) BY <1>3
<1>5. Head(msgq) \in [kind : {"LocOpenMsg", "LocSsrMsg"}, mask : SUBSET Events]
  BY <1>1, HeadTailProperties
<1>6. ASSUME NEW n \in DOMAIN msgq, n # 1
      PROVE  n - 1 \in DOMAIN Tail(msgq) /\ Tail(msgq)[n - 1] = msgq[n]
  <2>1. n \in Nat /\ n - 1 \in 1 .. Len(Tail(msgq)) /\ (n - 1) + 1 = n BY <1>2, <1>3, <1>6
  <2> QED BY <1>3, <1>4, <2>1
<1> QED BY <1>2, <1>3, <1>5, <1>6

LEMMA TaskArray ==
    ASSUME ArrayInv, LocOpenMsg \/ LocSsrMsg \/ Reopen
    PROVE  ArrayInv'
<1>1. Types BY DEF ArrayInv
<1>2. CASE LocOpenMsg
  <2>1. Head(msgq).mask \in SUBSET Events /\
        Tail(msgq) \in Seq([kind : {"LocOpenMsg", "LocSsrMsg"}, mask : SUBSET Events])
    BY <1>1, <1>2, HeadIs DEF LocOpenMsg
  <2>2. handle' \in [st : {"closed", "open", "stale"}, mask : SUBSET Events]
    BY <1>1, <1>2, <2>1, OpenType DEF LocOpenMsg
  <2>3. Types' BY <1>1, <1>2, <2>1, <2>2 DEF LocOpenMsg, Types, array
  <2> QED BY <1>2, <2>3, StillOwners DEF LocOpenMsg
<1>3. CASE LocSsrMsg
  <2>1. Tail(msgq) \in Seq([kind : {"LocOpenMsg", "LocSsrMsg"}, mask : SUBSET Events])
    BY <1>1, <1>3, HeadIs DEF LocSsrMsg
  <2>2. handle' \in [st : {"closed", "open", "stale"}, mask : SUBSET Events]
    BY <1>3 DEF LocSsrMsg, Closed
  <2>3. Types' BY <1>1, <1>3, <2>1, <2>2 DEF LocSsrMsg, Types, array
  <2> QED BY <1>3, <2>3, StillOwners DEF LocSsrMsg
<1>4. CASE Reopen
  <2>1. handle' \in [st : {"closed", "open", "stale"}, mask : SUBSET Events]
    BY <1>1, <1>4, MaskType, OpenType DEF Reopen
  <2>2. Types' BY <1>1, <1>4, <2>1 DEF Reopen, Types, array
  <2> QED BY <1>4, <2>2, StillOwners DEF Reopen
<1> QED BY <1>2, <1>3, <1>4

LEMMA ModemArray ==
    ASSUME ArrayInv, Crash \/ ComesUp
    PROVE  ArrayInv'
<1>1. Types BY DEF ArrayInv
<1>2. handle' \in [st : {"closed", "open", "stale"}, mask : SUBSET Events]
  <2>1. handle \in [st : {"closed", "open", "stale"}, mask : SUBSET Events] BY <1>1 DEF Types
  <2> QED BY <2>1 DEF Crash, ComesUp, task
<1>3. Types' BY <1>1, <1>2 DEF Crash, ComesUp, Types, array, task
<1> QED BY <1>3, StillOwners DEF Crash, ComesUp

LEMMA StartType ==
    ASSUME Types, NEW kind \in {"all", "first"}, Start(kind)
    PROVE  /\ loop' \in [at : {"idle", "check", "call", "end"}, kind : {"all", "first"},
                         i : Nat \ {0}, told : Seq(Adapters \cup {NULL}), taken : Nat,
                         wild : BOOLEAN, present : SUBSET Adapters, disturbed : BOOLEAN]
           /\ loop'.told = <<>> /\ loop'.i = 1 /\ loop'.taken = 0 /\ ~ loop'.wild
           /\ loop'.present = registered /\ loop'.at = "check" /\ loop'.disturbed = Compacting
<1>1. registered \in SUBSET Adapters /\ Compacting \in BOOLEAN BY DEF Types, Compacting
<1>2. loop' = [at |-> "check", kind |-> kind, i |-> 1, told |-> <<>>, taken |-> 0,
               wild |-> FALSE, present |-> registered, disturbed |-> Compacting]
  BY DEF Start, Idle, Compacting
<1> HIDE DEF Compacting
<1> QED BY <1>1, <1>2

LEMMA CallType ==
    ASSUME Types, NEW takes \in BOOLEAN, LoopCall(takes)
    PROVE  loop' \in [at : {"idle", "check", "call", "end"}, kind : {"all", "first"},
                      i : Nat \ {0}, told : Seq(Adapters \cup {NULL}), taken : Nat,
                      wild : BOOLEAN, present : SUBSET Adapters, disturbed : BOOLEAN]
<1>1. loop \in [at : {"idle", "check", "call", "end"}, kind : {"all", "first"},
                i : Nat \ {0}, told : Seq(Adapters \cup {NULL}), taken : Nat,
                wild : BOOLEAN, present : SUBSET Adapters, disturbed : BOOLEAN]
  BY DEF Types
<1>2. /\ loop.at = "call" /\ loop.i \in Slots
      /\ mLocAdapters \in [Slots -> Adapters \cup {NULL}]
  BY DEF Types, LoopCall
<1>3. PICK a \in Adapters \cup {NULL} : a = mLocAdapters[loop.i] BY <1>2
<1>4. CASE a = NULL BY <1>1, <1>3, <1>4 DEF LoopCall
<1>5. CASE a # NULL
  <2>1. Append(loop.told, a) \in Seq(Adapters \cup {NULL}) BY <1>1, AppendProperties
  <2>2. PICK n \in {0, 1} : loop' = [loop EXCEPT !.at = "check", !.i = @ + 1,
                                        !.told = Append(@, a), !.taken = @ + n,
                                        !.wild = @ \/ pc[a] = "gone"]
    BY <1>3, <1>5 DEF LoopCall
  <2>3. loop.taken + n \in Nat /\ loop.i + 1 \in Nat \ {0} BY <1>1
  <2> QED BY <1>1, <2>1, <2>2, <2>3
<1> QED BY <1>4, <1>5

LEMMA UpcallArray ==
    ASSUME ArrayInv, Upcalls
    PROVE  ArrayInv'
<1> DEFINE LoopType ==
        [at : {"idle", "check", "call", "end"}, kind : {"all", "first"},
         i : Nat \ {0}, told : Seq(Adapters \cup {NULL}), taken : Nat,
         wild : BOOLEAN, present : SUBSET Adapters, disturbed : BOOLEAN]
<1>1. Types /\ loop \in LoopType BY DEF ArrayInv, Types
<1>2. UNCHANGED array
  BY DEF Upcalls, DeliverToAll, DeliverToFirst, Deliver, LoopCheck, LoopEnd, LoopTakes,
         LoopPasses, LoopCall, EngineUp
<1>3. CASE \E kind \in {"all", "first"} : Deliver(kind)
  <2>1. PICK kind \in {"all", "first"} : Deliver(kind) BY <1>3
  <2>2. loop' \in LoopType /\ loop'.at = "check" BY <1>1, <2>1, StartType DEF Deliver
  <2>3. Types' BY <1>1, <1>2, <2>1, <2>2 DEF Deliver, Types, array, task
  <2> QED BY <1>2, <2>3, StillOwners
<1>4. CASE LoopCheck
  <2>1. loop' \in LoopType BY <1>1, <1>4 DEF LoopCheck
  <2>2. loop'.at = "call" => loop'.i \in Slots BY <1>1, <1>4 DEF LoopCheck
  <2>3. Types' BY <1>1, <1>2, <1>4, <2>1, <2>2 DEF LoopCheck, Types, array, task
  <2> QED BY <1>2, <2>3, StillOwners
<1>5. CASE \E takes \in BOOLEAN : LoopCall(takes)
  <2>1. PICK takes \in BOOLEAN : LoopCall(takes) BY <1>5
  <2>2. loop' \in LoopType BY <1>1, <2>1, CallType
  <2>3. loop'.at # "call" BY <1>1, <2>1 DEF LoopCall
  <2>4. Types' BY <1>1, <1>2, <2>1, <2>2, <2>3 DEF LoopCall, Types, array, task
  <2> QED BY <1>2, <2>4, StillOwners
<1>6. CASE LoopEnd
  <2>1. loop' \in LoopType /\ loop'.at = "idle" BY <1>6, EmptySeq DEF LoopEnd, Idle
  <2>2. Types' BY <1>1, <1>2, <1>6, <2>1 DEF LoopEnd, Types, array, task
  <2> QED BY <1>2, <2>2, StillOwners
<1>7. CASE EngineUp
  <2>1. loop' \in LoopType /\ loop'.at = "check" BY <1>1, <1>7, StartType DEF EngineUp
  <2>2. msgq' \in Seq([kind : {"LocOpenMsg", "LocSsrMsg"}, mask : SUBSET Events])
    <3>1. {} \in SUBSET Events OBVIOUS
    <3> QED BY <1>1, <1>7, <3>1, MessageType DEF EngineUp
  <2>3. Types' BY <1>1, <1>2, <1>7, <2>1, <2>2 DEF EngineUp, Types, array
  <2> QED BY <1>2, <2>3, StillOwners
<1> QED BY <1>3, <1>4, <1>5, <1>6, <1>7
        DEF Upcalls, DeliverToAll, DeliverToFirst, LoopTakes, LoopPasses

-----------------------------------------------------------------------------
(***************************************************************************)
(* The upcall.  As long as nobody is removed, the adapters told are those  *)
(* of the first slots, in their order, and all who were there when it      *)
(* began still are; so when it finds a free slot it has reached them all.  *)
(***************************************************************************)
ToldOf(a) == \E n \in 1 .. loop.i - 1 : loop.told[n] = a

LoopInv ==
    loop.at # "idle" /\ ~ loop.disturbed =>
        /\ ~ Compacting
        /\ Len(loop.told) = loop.i - 1
        /\ \A n \in 1 .. loop.i - 1 : /\ n \in Slots
                                      /\ loop.told[n] = mLocAdapters[n]
                                      /\ mLocAdapters[n] # NULL
        /\ loop.present \subseteq registered
        /\ ~ loop.wild
        /\ loop.kind = "first" => loop.taken <= 1 /\ (loop.at = "call" => loop.taken = 0)
        /\ loop.at = "call" => mLocAdapters[loop.i] # NULL
        /\ loop.at = "end" => \/ loop.kind = "first" /\ loop.taken > 0
                              \/ \A a \in loop.present : ToldOf(a)

\* A step that leaves the upcall alone, and every adapter it may have told.
LEMMA StillLoop ==
    ASSUME Types, LoopInv, loop' = loop, ~ Compacting => ~ Compacting',
           \A i \in Slots : mLocAdapters[i] # NULL => mLocAdapters'[i] = mLocAdapters[i],
           registered \subseteq registered'
    PROVE  LoopInv'
<1> SUFFICES ASSUME loop.at # "idle", ~ loop.disturbed PROVE LoopInv' BY DEF LoopInv
<1>1. \A n \in 1 .. loop.i - 1 : /\ n \in Slots
                                 /\ loop.told[n] = mLocAdapters'[n]
                                 /\ mLocAdapters'[n] # NULL
  BY DEF LoopInv
<1>2. loop.at = "call" => mLocAdapters'[loop.i] # NULL BY DEF LoopInv, Types
<1>3. \A a : ToldOf(a)' <=> ToldOf(a) BY DEF ToldOf
<1> QED BY <1>1, <1>2, <1>3 DEF LoopInv

LEMMA OwnerLoop ==
    ASSUME ArrayInv, ArrayInv', LoopInv, NEW a \in Adapters, Owner(a), ~ crossed'
    PROVE  LoopInv'
<1>1. Types BY DEF ArrayInv
<1>2. CASE AddStore(a)
  <2>1. Changing(a) /\ \A b \in Adapters : pc[b] \in {"fill", "trim"} => Changing(b)
    BY <1>2 DEF AddStore, Changing
  <2>2. pc'[a] = "announce" /\ \A b \in Adapters : b # a => pc'[b] = pc[b]
    BY <1>1, <1>2 DEF AddStore, Goto, Types
  <2>3. tmp[a].i \in Slots /\ Filled(tmp[a].i - 1) BY <1>2 DEF ArrayInv, ShapeInv, AddStore
  <2>4. PICK p \in Slots : p = tmp[a].i BY <2>3
  <2>5. mLocAdapters[p] = NULL BY <2>3, <2>4, SlotsAre DEF Filled
  <2>6. \A i \in Slots : mLocAdapters[i] # NULL => mLocAdapters'[i] = mLocAdapters[i]
    <3>1. mLocAdapters' = [mLocAdapters EXCEPT ![p] = a] BY <1>2, <2>4 DEF AddStore
    <3> QED BY <1>1, <2>5, <3>1 DEF Types
  <2>7. Compacting' => Compacting BY <2>2 DEF Compacting
  <2> QED BY <1>1, <1>2, <2>6, <2>7, StillLoop DEF AddStore
<1>3. CASE RemoveClear(a)
  <2>1. CASE loop'.at = loop.at /\ (loop.at # "idle" => loop'.disturbed) BY <2>1 DEF LoopInv
  <2>2. CASE UNCHANGED <<mLocAdapters, registered, loop>> /\ pc'[a] = "gone"
    <3>1. \A b \in Adapters : b # a => pc'[b] = pc[b]
      BY <1>1, <1>3 DEF RemoveClear, Goto, Types
    <3>2. Compacting' => Compacting BY <2>2, <3>1 DEF Compacting
    <3> QED BY <1>1, <2>2, <3>2, StillLoop
  <2> QED BY <1>3, <2>1, <2>2, RemoveClearArray
<1>4. CASE RemoveFill(a) \/ RemoveTrim(a)
  <2>1. loop'.at = loop.at /\ (loop.at # "idle" => loop'.disturbed)
    BY <1>1, <1>4, DisturbType DEF RemoveFill, RemoveTrim
  <2> QED BY <2>1 DEF LoopInv
<1>5. CASE \/ AddFind(a) \/ AddAnnounce(a) \/ \E event \in Events : UpdateMask(a, event)
           \/ Renew(a) \/ Post(a) \/ RemoveLeave(a)
  <2>1. \E place \in Places \ {"fill", "trim"} : Goto(a, place)
    <3>1. tmp[a].next \in {"idle", "gone"} BY <1>1 DEF Types
    <3> QED BY <1>5, <3>1
            DEF AddFind, AddAnnounce, UpdateMask, Renew, Post, RemoveLeave, Places
  <2>2. PICK place \in Places \ {"fill", "trim"} : Goto(a, place) BY <2>1
  <2>3. pc'[a] = place /\ \A b \in Adapters : b # a => pc'[b] = pc[b]
    BY <1>1, <2>2 DEF Goto, Types
  <2>4. Compacting' => Compacting BY <2>2, <2>3 DEF Compacting
  <2>5. UNCHANGED <<mLocAdapters, registered, loop>>
    BY <1>5 DEF AddFind, AddAnnounce, UpdateMask, Renew, Post, RemoveLeave
  <2> QED BY <1>1, <2>4, <2>5, StillLoop
<1> QED BY <1>2, <1>3, <1>4, <1>5 DEF Owner

\* A new upcall has told nobody.
LEMMA StartLoop ==
    ASSUME ArrayInv, NEW kind \in {"all", "first"}, Start(kind), UNCHANGED array
    PROVE  LoopInv'
<1>1. /\ loop'.told = <<>> /\ loop'.i = 1 /\ loop'.taken = 0 /\ ~ loop'.wild
      /\ loop'.present = registered /\ loop'.at = "check" /\ loop'.disturbed = Compacting
  BY StartType DEF ArrayInv
<1>2. Compacting' = Compacting /\ registered' = registered BY DEF Compacting, array
<1> QED BY <1>1, <1>2, EmptySeq DEF LoopInv

\* At the first free slot, or behind the last one, every adapter has been told.
LEMMA CheckLoop ==
    ASSUME ArrayInv, LoopInv, LoopCheck
    PROVE  LoopInv'
<1> USE SlotsAre
<1>1. Types /\ loop.at = "check" /\ UNCHANGED array BY DEF ArrayInv, LoopCheck
<1>2. loop \in [at : {"idle", "check", "call", "end"}, kind : {"all", "first"},
                i : Nat \ {0}, told : Seq(Adapters \cup {NULL}), taken : Nat,
                wild : BOOLEAN, present : SUBSET Adapters, disturbed : BOOLEAN]
  BY <1>1 DEF Types
<1>3. /\ loop'.i = loop.i /\ loop'.told = loop.told /\ loop'.taken = loop.taken
      /\ loop'.kind = loop.kind /\ loop'.present = loop.present
      /\ loop'.wild = loop.wild /\ loop'.disturbed = loop.disturbed
  BY <1>2 DEF LoopCheck
<1> SUFFICES ASSUME ~ loop.disturbed PROVE LoopInv' BY <1>3 DEF LoopInv
<1>4. /\ ~ Compacting /\ Len(loop.told) = loop.i - 1
      /\ loop.present \subseteq registered /\ ~ loop.wild
      /\ loop.kind = "first" => loop.taken <= 1
      /\ \A n \in 1 .. loop.i - 1 : /\ n \in Slots
                                    /\ loop.told[n] = mLocAdapters[n]
                                    /\ mLocAdapters[n] # NULL
  BY <1>1 DEF LoopInv
<1>5. /\ ~ Compacting' /\ UNCHANGED <<mLocAdapters, registered>>
  BY <1>1, <1>4 DEF Compacting, array
<1>6. CASE /\ loop.i \in Slots /\ mLocAdapters[loop.i] # NULL
           /\ ~ (loop.kind = "first" /\ loop.taken > 0)
  <2>1. loop'.at = "call" BY <1>2, <1>6 DEF LoopCheck
  <2>2. loop.kind = "first" => loop.taken = 0 BY <1>2, <1>6
  <2> QED BY <1>3, <1>4, <1>5, <1>6, <2>1, <2>2 DEF LoopInv
<1>7. CASE ~ (/\ loop.i \in Slots /\ mLocAdapters[loop.i] # NULL
              /\ ~ (loop.kind = "first" /\ loop.taken > 0))
  <2>1. loop'.at = "end" BY <1>2, <1>7 DEF LoopCheck
  <2>2. (loop.kind = "first" /\ loop.taken > 0) \/ \A a \in loop.present : ToldOf(a)
    <3> SUFFICES ASSUME loop.i \notin Slots \/ mLocAdapters[loop.i] = NULL,
                        NEW a \in loop.present
                 PROVE  ToldOf(a)
      BY <1>7
    <3>1. PICK L \in 0 .. MAX_ADAPTERS : Compact(L) BY <1>4 DEF ArrayInv, ShapeInv
    <3>2. L <= loop.i - 1
      <4>1. CASE loop.i \notin Slots BY <1>2, <4>1
      <4>2. CASE loop.i \in Slots BY <1>2, <3>1, <4>2 DEF Compact, Filled
      <4> QED BY <4>1, <4>2
    <3>3. a \in registered /\ a \in Adapters BY <1>2, <1>4
    <3>4. PICK n \in Slots : mLocAdapters[n] = a BY <3>1, <3>3 DEF Compact, Holds
    <3>5. a # NULL BY <3>3, AdaptersAssumption
    <3>6. n <= L BY <3>1, <3>4, <3>5 DEF Compact, Filled
    <3>7. n \in 1 .. loop.i - 1 BY <1>2, <3>2, <3>6
    <3>8. loop.told[n] = a BY <1>4, <3>4, <3>7
    <3> QED BY <3>7, <3>8 DEF ToldOf
  <2>3. \A a : ToldOf(a)' <=> ToldOf(a) BY <1>3 DEF ToldOf
  <2> QED BY <1>3, <1>4, <1>5, <2>1, <2>2, <2>3 DEF LoopInv
<1> QED BY <1>6, <1>7

\* The slot that was compared is still filled, with an adapter that is not gone.
LEMMA CallLoop ==
    ASSUME ArrayInv, LoopInv, NEW takes \in BOOLEAN, LoopCall(takes),
           takes => loop.kind = "first"
    PROVE  LoopInv'
<1> USE SlotsAre
<1>1. Types /\ loop.at = "call" /\ UNCHANGED array BY DEF ArrayInv, LoopCall
<1>2. loop \in [at : {"idle", "check", "call", "end"}, kind : {"all", "first"},
                i : Nat \ {0}, told : Seq(Adapters \cup {NULL}), taken : Nat,
                wild : BOOLEAN, present : SUBSET Adapters, disturbed : BOOLEAN]
  BY <1>1 DEF Types
<1>3. loop'.disturbed = loop.disturbed BY <1>2 DEF LoopCall
<1> SUFFICES ASSUME ~ loop.disturbed PROVE LoopInv' BY <1>3 DEF LoopInv
<1>4. /\ ~ Compacting /\ Len(loop.told) = loop.i - 1
      /\ loop.present \subseteq registered /\ ~ loop.wild
      /\ loop.kind = "first" => loop.taken = 0
      /\ mLocAdapters[loop.i] # NULL /\ loop.i \in Slots
      /\ \A n \in 1 .. loop.i - 1 : /\ n \in Slots
                                    /\ loop.told[n] = mLocAdapters[n]
                                    /\ mLocAdapters[n] # NULL
  BY <1>1 DEF LoopInv, Types
<1>5. mLocAdapters[loop.i] \in Adapters BY <1>1, <1>4 DEF Types
<1>6. PICK a \in Adapters : a = mLocAdapters[loop.i] BY <1>5
<1>7. a # NULL BY <1>6, <1>4
<1>8. pc[a] # "gone"
  <2>1. PICK L \in 0 .. MAX_ADAPTERS : Compact(L) BY <1>4 DEF ArrayInv, ShapeInv
  <2>2. a \in registered BY <1>4, <1>6, <2>1 DEF Compact, Holds
  <2> QED BY <2>2 DEF ArrayInv, PlaceInv
<1>9. PICK k \in {0, 1} : /\ k = IF takes THEN 1 ELSE 0
                          /\ loop' = [loop EXCEPT !.at = "check", !.i = @ + 1,
                                        !.told = Append(@, a), !.taken = @ + k,
                                        !.wild = @ \/ pc[a] = "gone"]
  BY <1>6, <1>7 DEF LoopCall
<1>10. /\ loop'.at = "check" /\ loop'.i = loop.i + 1 /\ loop'.told = Append(loop.told, a)
       /\ loop'.taken = loop.taken + k /\ loop'.wild = FALSE
       /\ loop'.kind = loop.kind /\ loop'.present = loop.present
  BY <1>2, <1>4, <1>8, <1>9
<1>11. /\ ~ Compacting' /\ UNCHANGED <<mLocAdapters, registered>>
  BY <1>1, <1>4 DEF Compacting, array
<1>12. /\ Len(loop'.told) = loop.i /\ loop'.told[loop.i] = a
       /\ \A n \in 1 .. loop.i - 1 : loop'.told[n] = loop.told[n]
  <2>1. loop.told \in Seq(Adapters \cup {NULL}) BY <1>2
  <2>2. PICK q \in Seq(Adapters \cup {NULL}) : q = loop.told BY <2>1
  <2>3. /\ Len(Append(q, a)) = Len(q) + 1 /\ Append(q, a)[Len(q) + 1] = a
        /\ \A n \in 1 .. Len(q) : Append(q, a)[n] = q[n]
    BY AppendProperties
  <2>4. Len(q) = loop.i - 1 /\ Len(q) + 1 = loop.i BY <1>2, <1>4, <2>2
  <2>5. loop'.told = Append(q, a) BY <1>10, <2>2
  <2>6. Len(loop'.told) = loop.i /\ loop'.told[loop.i] = a BY <2>3, <2>4, <2>5
  <2>7. ASSUME NEW n \in 1 .. loop.i - 1 PROVE loop'.told[n] = loop.told[n]
    BY <2>2, <2>3, <2>4, <2>5
  <2> QED BY <2>6, <2>7
<1>13. Len(loop'.told) = loop'.i - 1 BY <1>2, <1>10, <1>12
<1>14. \A n \in 1 .. loop'.i - 1 : /\ n \in Slots
                                   /\ loop'.told[n] = mLocAdapters'[n]
                                   /\ mLocAdapters'[n] # NULL
  <2> SUFFICES ASSUME NEW n \in 1 .. loop'.i - 1
               PROVE  /\ n \in Slots /\ loop'.told[n] = mLocAdapters[n]
                      /\ mLocAdapters[n] # NULL
    BY <1>11
  <2>1. n \in 1 .. loop.i BY <1>2, <1>10
  <2>2. CASE n = loop.i BY <1>4, <1>6, <1>12, <2>2
  <2>3. CASE n # loop.i
    <3>1. n \in 1 .. loop.i - 1 BY <1>2, <2>1, <2>3
    <3> QED BY <1>4, <1>12, <3>1
  <2> QED BY <2>2, <2>3
<1>15. loop'.kind = "first" => loop'.taken <= 1 BY <1>2, <1>4, <1>10
<1> QED BY <1>4, <1>10, <1>11, <1>13, <1>14, <1>15 DEF LoopInv

LEMMA UpcallLoop ==
    ASSUME ArrayInv, LoopInv, Upcalls
    PROVE  LoopInv'
<1>1. CASE \E kind \in {"all", "first"} : Deliver(kind) BY <1>1, StartLoop DEF Deliver
<1>2. CASE LoopCheck BY <1>2, CheckLoop
<1>3. CASE LoopTakes BY <1>3, CallLoop DEF LoopTakes
<1>4. CASE LoopPasses BY <1>4, CallLoop DEF LoopPasses
<1>5. CASE LoopEnd BY <1>5 DEF LoopEnd, Idle, LoopInv
<1>6. CASE EngineUp BY <1>6, StartLoop DEF EngineUp
<1> QED BY <1>1, <1>2, <1>3, <1>4, <1>5, <1>6
        DEF Upcalls, DeliverToAll, DeliverToFirst

-----------------------------------------------------------------------------
(***************************************************************************)
(* The subscription.  What a registered adapter asks for is in the open    *)
(* handle, or on its way there: in a queued message, in one its sender is  *)
(* about to post, or in one its owner has yet to announce.  Or the array   *)
(* is to be read again: by a restart of the modem that has not been        *)
(* handled to the end, or by an owner that has not posted yet.             *)
(***************************************************************************)
Reads(b) == pc[b] \in {"renew", "fill", "trim"} \/ (pc[b] = "leave" /\ tmp[b].i # 1)
SsrQueued == \E n \in DOMAIN msgq : msgq[n].kind = "LocSsrMsg"
Restarting == modem # "up" \/ SsrQueued
WillReopen == Restarting \/ mt = "reopen" \/ \E b \in Adapters : Reads(b)

AboutToPost(a) == \E b \in Adapters : pc[b] = "post" /\ mEvtMask[a] \subseteq tmp[b].mask
OpenQueued(a) ==
    \E n \in DOMAIN msgq : msgq[n].kind = "LocOpenMsg" /\ mEvtMask[a] \subseteq msgq[n].mask
IsOpen(a) == handle.st = "open" /\ mEvtMask[a] \subseteq handle.mask
Asked(a) == pc[a] = "announce" \/ AboutToPost(a) \/ OpenQueued(a) \/ IsOpen(a)

CoverInv ==
    /\ \A a \in registered : WillReopen \/ Asked(a)
    /\ handle.st = "stale" => Restarting

\* What is queued stays queued while messages are added.
LEMMA AppendKeeps ==
    ASSUME Types, NEW kind \in {"LocOpenMsg", "LocSsrMsg"}, NEW mask \in SUBSET Events,
           msgq' = Append(msgq, Message(kind, mask))
    PROVE  /\ \A n \in DOMAIN msgq : n \in DOMAIN msgq' /\ msgq'[n] = msgq[n]
           /\ \E n \in DOMAIN msgq' : msgq'[n].kind = kind /\ msgq'[n].mask = mask
<1>1. PICK m \in [kind : {"LocOpenMsg", "LocSsrMsg"}, mask : SUBSET Events] :
        m = Message(kind, mask) /\ m.kind = kind /\ m.mask = mask
  BY DEF Message
<1>2. PICK q \in Seq([kind : {"LocOpenMsg", "LocSsrMsg"}, mask : SUBSET Events]) : q = msgq
  BY DEF Types
<1>3. /\ Len(Append(q, m)) = Len(q) + 1 /\ Append(q, m)[Len(q) + 1] = m
      /\ \A n \in 1 .. Len(q) : Append(q, m)[n] = q[n]
      /\ Append(q, m) \in Seq([kind : {"LocOpenMsg", "LocSsrMsg"}, mask : SUBSET Events])
  BY AppendProperties
<1>4. DOMAIN q = 1 .. Len(q) /\ DOMAIN Append(q, m) = 1 .. Len(q) + 1 /\ Len(q) \in Nat
  BY <1>3, LenProperties
<1>5. msgq' = Append(q, m) BY <1>1, <1>2
<1>6. Len(q) + 1 \in DOMAIN Append(q, m) BY <1>4
<1>7. \A n \in DOMAIN q : n \in DOMAIN Append(q, m) /\ Append(q, m)[n] = q[n] BY <1>3, <1>4
<1> QED BY <1>1, <1>2, <1>3, <1>5, <1>6, <1>7

\* A read of the array that is not being compacted covers every registered
\* adapter; one that may be is followed by another.
LEMMA ReadCovers ==
    ASSUME ArrayInv, NEW a \in registered
    PROVE  mEvtMask[a] \subseteq getEvtMask \/ \E b \in Adapters : pc[b] \in {"fill", "trim"}
<1> SUFFICES ASSUME ~ Compacting PROVE mEvtMask[a] \subseteq getEvtMask BY DEF Compacting
<1>1. PICK L \in 0 .. MAX_ADAPTERS : Compact(L) BY DEF ArrayInv, ShapeInv
<1>2. a \in Reached BY <1>1, CompactWalk DEF ArrayInv
<1> QED BY <1>2 DEF getEvtMask

\* An owner's step that does not read, after which all is asked for as before.
LEMMA StillCovered ==
    ASSUME Types, CoverInv, NEW a \in Adapters, ~ Reads(a),
           UNCHANGED <<modem, mt, handle, mEvtMask>>,
           \A b \in Adapters : b # a => pc'[b] = pc[b] /\ tmp'[b] = tmp[b],
           \A n \in DOMAIN msgq : n \in DOMAIN msgq' /\ msgq'[n] = msgq[n],
           pc[a] = "announce" => OpenQueued(a)',
           pc[a] = "post" => \A b \in registered : mEvtMask[b] \subseteq tmp[a].mask => OpenQueued(b)',
           \A b \in registered' : b # a => b \in registered,
           a \in registered' => a \in registered \/ pc'[a] = "announce"
    PROVE  CoverInv'
<1>1. SsrQueued => SsrQueued' BY DEF SsrQueued
<1>2. Restarting => Restarting' BY <1>1 DEF Restarting
<1>3. WillReopen => WillReopen'
  <2>1. ASSUME NEW b \in Adapters, Reads(b) PROVE Reads(b)'
    <3>1. b # a BY <2>1
    <3>2. pc'[b] = pc[b] /\ tmp'[b] = tmp[b] BY <3>1
    <3> QED BY <2>1, <3>2 DEF Reads
  <2> QED BY <1>2, <2>1 DEF WillReopen
<1>4. ASSUME NEW b \in registered, b \in Adapters, Asked(b) PROVE Asked(b)'
  <2>1. CASE pc[b] = "announce"
    <3>1. CASE b = a BY <2>1, <3>1 DEF Asked
    <3>2. CASE b # a BY <1>4, <2>1, <3>2 DEF Asked
    <3> QED BY <3>1, <3>2
  <2>2. CASE AboutToPost(b)
    <3>1. PICK c \in Adapters : pc[c] = "post" /\ mEvtMask[b] \subseteq tmp[c].mask
      BY <2>2 DEF AboutToPost
    <3>2. CASE c = a BY <3>1, <3>2 DEF Asked
    <3>3. CASE c # a BY <3>1, <3>3 DEF Asked, AboutToPost
    <3> QED BY <3>2, <3>3
  <2>3. CASE OpenQueued(b) BY <2>3 DEF OpenQueued, Asked
  <2>4. CASE IsOpen(b) BY <2>4 DEF IsOpen, Asked
  <2> QED BY <1>4, <2>1, <2>2, <2>3, <2>4 DEF Asked
<1>5. ASSUME NEW b \in registered' PROVE WillReopen' \/ Asked(b)'
  <2>1. CASE b \in registered
    <3>1. b \in Adapters BY <2>1 DEF Types
    <3> QED BY <1>3, <1>4, <2>1, <3>1 DEF CoverInv
  <2>2. CASE b \notin registered BY <1>5, <2>2 DEF Asked
  <2> QED BY <2>1, <2>2
<1> QED BY <1>2, <1>5 DEF CoverInv

\* An owner that reads the array again will post what it finds.
LEMMA ReadAgain ==
    ASSUME CoverInv, NEW a \in Adapters, Reads(a)',
           UNCHANGED <<modem, msgq, handle>>
    PROVE  CoverInv'
<1>1. Restarting => Restarting' BY DEF Restarting, SsrQueued
<1> QED BY <1>1 DEF CoverInv, WillReopen

\* An owner that has read the array is about to post all of it.
LEMMA HasRead ==
    ASSUME ArrayInv, ArrayInv', CoverInv, NEW a \in Adapters,
           pc[a] \notin {"fill", "trim"},
           pc'[a] = "post", tmp'[a].mask = getEvtMask,
           \A b \in Adapters : b # a => pc'[b] = pc[b],
           UNCHANGED <<modem, msgq, handle, mEvtMask, registered>>
    PROVE  CoverInv'
<1>1. Restarting => Restarting' BY DEF Restarting, SsrQueued
<1>2. ASSUME NEW b \in registered PROVE WillReopen' \/ Asked(b)'
  <2>1. CASE mEvtMask[b] \subseteq getEvtMask BY <2>1 DEF Asked, AboutToPost
  <2>2. CASE \E c \in Adapters : pc[c] \in {"fill", "trim"}
    <3>1. PICK c \in Adapters : pc[c] \in {"fill", "trim"} BY <2>2
    <3>2. Reads(c)' BY <3>1 DEF Reads
    <3> QED BY <3>2 DEF WillReopen
  <2> QED BY <2>1, <2>2, ReadCovers
<1> QED BY <1>1, <1>2 DEF CoverInv

LEMMA OwnerCover ==
    ASSUME ArrayInv, ArrayInv', CoverInv, NEW a \in Adapters, Owner(a), ~ crossed'
    PROVE  CoverInv'
<1>1. Types /\ Types' BY DEF ArrayInv
<1>2. \A place : Goto(a, place) => \A b \in Adapters : b # a => pc'[b] = pc[b]
  BY <1>1 DEF Goto, Types
<1>3. CASE AddFind(a)
  <2>1. \A b \in Adapters : b # a => pc'[b] = pc[b] /\ tmp'[b] = tmp[b]
    BY <1>1, <1>2, <1>3 DEF AddFind, Types
  <2>2. ~ Reads(a) /\ pc[a] \notin {"announce", "post"} BY <1>3 DEF AddFind, Reads
  <2> QED BY <1>1, <1>3, <2>1, <2>2, StillCovered DEF AddFind, task
<1>4. CASE AddStore(a)
  <2>1. \A b \in Adapters : b # a => pc'[b] = pc[b] /\ tmp'[b] = tmp[b]
    BY <1>1, <1>2, <1>4 DEF AddStore, Types
  <2>2. ~ Reads(a) /\ pc[a] \notin {"announce", "post"} BY <1>4 DEF AddStore, Reads
  <2>3. pc'[a] = "announce" BY <1>1, <1>4 DEF AddStore, Goto, Types
  <2> QED BY <1>1, <1>4, <2>1, <2>2, <2>3, StillCovered DEF AddStore, task
<1>5. CASE AddAnnounce(a)
  <2>1. \A b \in Adapters : b # a => pc'[b] = pc[b] /\ tmp'[b] = tmp[b]
    BY <1>1, <1>2, <1>5 DEF AddAnnounce, Types
  <2>2. ~ Reads(a) /\ pc[a] # "post" BY <1>5 DEF AddAnnounce, Reads
  <2>3. mEvtMask[a] \in SUBSET Events BY <1>1 DEF Types
  <2>4. /\ \A n \in DOMAIN msgq : n \in DOMAIN msgq' /\ msgq'[n] = msgq[n]
        /\ \E n \in DOMAIN msgq' : msgq'[n].kind = "LocOpenMsg" /\ msgq'[n].mask = mEvtMask[a]
    BY <1>1, <1>5, <2>3, AppendKeeps DEF AddAnnounce
  <2>5. OpenQueued(a)' BY <1>5, <2>4 DEF OpenQueued, AddAnnounce
  <2> QED BY <1>1, <1>5, <2>1, <2>2, <2>4, <2>5, StillCovered DEF AddAnnounce
<1>6. CASE \E event \in Events : UpdateMask(a, event)
  <2>1. pc'[a] = "renew" BY <1>6, UpdateMaskArray
  <2>2. Reads(a)' BY <2>1 DEF Reads
  <2> QED BY <1>6, <2>2, ReadAgain DEF UpdateMask, task
<1>7. CASE Renew(a)
  <2>1. /\ pc'[a] = "post" /\ tmp'[a].mask = getEvtMask
        /\ \A b \in Adapters : b # a => pc'[b] = pc[b]
    BY <1>7, RenewArray
  <2> QED BY <1>7, <2>1, HasRead DEF Renew, task
<1>8. CASE Post(a)
  <2>1. \A b \in Adapters : b # a => pc'[b] = pc[b] /\ tmp'[b] = tmp[b] BY <1>8, PostArray
  <2>2. ~ Reads(a) /\ pc[a] # "announce" BY <1>8 DEF Post, Reads
  <2>3. PICK m \in SUBSET Events : m = tmp[a].mask BY <1>1 DEF Types
  <2>4. /\ \A n \in DOMAIN msgq : n \in DOMAIN msgq' /\ msgq'[n] = msgq[n]
        /\ \E n \in DOMAIN msgq' : msgq'[n].kind = "LocOpenMsg" /\ msgq'[n].mask = m
    BY <1>1, <1>8, <2>3, AppendKeeps DEF Post
  <2>5. \A b \in registered : mEvtMask[b] \subseteq tmp[a].mask => OpenQueued(b)'
    BY <1>8, <2>3, <2>4 DEF OpenQueued, Post
  <2> QED BY <1>1, <1>8, <2>1, <2>2, <2>4, <2>5, StillCovered DEF Post
<1>9. CASE RemoveClear(a)
  <2>1. CASE a \in Reached
    <3>1. Reads(a)'
      <4>1. pc'[a] = "fill" BY <1>1, <1>9, <2>1 DEF RemoveClear, Goto, Types
      <4> QED BY <4>1 DEF Reads
    <3> QED BY <1>9, <3>1, ReadAgain DEF RemoveClear, task
  <2>2. CASE a \notin Reached
    <3>1. \A b \in Adapters : b # a => pc'[b] = pc[b] /\ tmp'[b] = tmp[b]
      BY <1>2, <1>9, <2>2 DEF RemoveClear
    <3>2. ~ Reads(a) /\ pc[a] \notin {"announce", "post"} BY <1>9 DEF RemoveClear, Reads
    <3> QED BY <1>1, <1>9, <3>1, <3>2, StillCovered DEF RemoveClear, task
  <2> QED BY <2>1, <2>2
<1>10. CASE RemoveFill(a)
  <2>1. pc'[a] = "trim" BY <1>1, <1>10 DEF RemoveFill, Goto, Types
  <2>2. Reads(a)' BY <2>1 DEF Reads
  <2> QED BY <1>10, <2>2, ReadAgain DEF RemoveFill, task
<1>11. CASE RemoveTrim(a)
  <2>1. pc'[a] = "leave" /\ tmp' = tmp BY <1>1, <1>11 DEF RemoveTrim, Goto, Types
  <2>2. CASE tmp[a].i # 1
    <3>1. Reads(a)' BY <2>1, <2>2 DEF Reads
    <3> QED BY <1>11, <3>1, ReadAgain DEF RemoveTrim, task
  <2>3. CASE tmp[a].i = 1
    <3>1. registered' = {} BY <2>1, <2>3 DEF ArrayInv, ShapeInv
    <3>2. UNCHANGED <<modem, msgq, handle>> BY <1>11 DEF RemoveTrim, task
    <3>3. Restarting => Restarting' BY <3>2 DEF Restarting, SsrQueued
    <3> QED BY <3>1, <3>2, <3>3 DEF CoverInv
  <2> QED BY <2>2, <2>3
<1>12. CASE RemoveLeave(a)
  <2>1. CASE tmp[a].i # 1
    <3>1. /\ pc'[a] = "post" /\ tmp'[a].mask = getEvtMask /\ handle' = handle
          /\ \A b \in Adapters : b # a => pc'[b] = pc[b]
      BY <1>12, <2>1, RemoveLeaveArray
    <3> QED BY <1>12, <3>1, HasRead DEF RemoveLeave
  <2>2. CASE tmp[a].i = 1
    <3>1. registered' = {} BY <1>12, <2>2 DEF ArrayInv, ShapeInv, RemoveLeave
    <3>2. handle'.st = "closed" BY <1>12, <2>2 DEF RemoveLeave, Closed
    <3> QED BY <3>1, <3>2 DEF CoverInv
  <2> QED BY <2>1, <2>2
<1> QED BY <1>3, <1>4, <1>5, <1>6, <1>7, <1>8, <1>9, <1>10, <1>11, <1>12 DEF Owner

\* LocOpenMsg adds its mask to the open handle, or a restart is still to come.
LEMMA OpenCover ==
    ASSUME ArrayInv, CoverInv, LocOpenMsg
    PROVE  CoverInv'
<1>1. Types BY DEF ArrayInv
<1>2. PICK m \in [kind : {"LocOpenMsg", "LocSsrMsg"}, mask : SUBSET Events] : m = Head(msgq)
  BY <1>1, HeadIs DEF LocOpenMsg
<1>3. /\ m = msgq[1] /\ m.kind = "LocOpenMsg" /\ msgq' = Tail(msgq)
      /\ handle' = Open(handle, m.mask)
      /\ UNCHANGED <<array, mt, modem>>
      /\ \A n \in DOMAIN msgq : n # 1 => n - 1 \in DOMAIN msgq' /\ msgq'[n - 1] = msgq[n]
  BY <1>1, <1>2, HeadIs DEF LocOpenMsg
<1>4. Restarting => Restarting'
  <2>1. SsrQueued => SsrQueued'
    <3> SUFFICES ASSUME NEW n \in DOMAIN msgq, msgq[n].kind = "LocSsrMsg"
                 PROVE  \E k \in DOMAIN msgq' : msgq'[k].kind = "LocSsrMsg"
      BY DEF SsrQueued
    <3>1. n # 1 BY <1>3
    <3> QED BY <1>3, <3>1
  <2> QED BY <1>3, <2>1 DEF Restarting
<1>5. WillReopen => WillReopen' BY <1>3, <1>4 DEF WillReopen, Reads, array
<1>6. handle \in [st : {"closed", "open", "stale"}, mask : SUBSET Events] BY <1>1 DEF Types
<1>7. CASE handle.st = "stale"
  <2>1. Restarting' BY <1>4, <1>7 DEF CoverInv
  <2> QED BY <2>1 DEF CoverInv, WillReopen
<1>8. CASE handle.st = "closed" /\ modem = "down"
  <2>1. Restarting' BY <1>3, <1>8 DEF Restarting
  <2> QED BY <2>1 DEF CoverInv, WillReopen
<1>9. CASE ~ (handle.st = "stale" \/ (handle.st = "closed" /\ modem = "down"))
  <2>1. handle'.st = "open" /\ handle'.mask = handle.mask \cup m.mask
    BY <1>3, <1>9 DEF Open
  <2>2. ASSUME NEW a \in registered, Asked(a) PROVE Asked(a)'
    <3>1. CASE pc[a] = "announce" BY <1>3, <3>1 DEF Asked, array
    <3>2. CASE AboutToPost(a) BY <1>3, <3>2 DEF Asked, AboutToPost, array
    <3>3. CASE OpenQueued(a)
      <4>1. PICK n \in DOMAIN msgq :
                msgq[n].kind = "LocOpenMsg" /\ mEvtMask[a] \subseteq msgq[n].mask
        BY <3>3 DEF OpenQueued
      <4>2. CASE n = 1 BY <1>3, <2>1, <4>1, <4>2 DEF Asked, IsOpen, array
      <4>3. CASE n # 1 BY <1>3, <4>1, <4>3 DEF Asked, OpenQueued, array
      <4> QED BY <4>2, <4>3
    <3>4. CASE IsOpen(a) BY <1>3, <2>1, <3>4 DEF Asked, IsOpen, array
    <3> QED BY <2>2, <3>1, <3>2, <3>3, <3>4 DEF Asked
  <2>3. registered' = registered BY <1>3 DEF array
  <2> QED BY <1>5, <2>1, <2>2, <2>3 DEF CoverInv
<1> QED BY <1>7, <1>8, <1>9

\* The reopening covers what is registered, or the array is being compacted.
LEMMA ReopenCover ==
    ASSUME ArrayInv, CoverInv, Reopen
    PROVE  CoverInv'
<1>1. Types BY DEF ArrayInv
<1>2. PICK m \in SUBSET Events : m = getEvtMask BY MaskType
<1>3. handle' = Open(handle, m) /\ UNCHANGED <<array, msgq, modem>> BY <1>2 DEF Reopen
<1>4. Restarting => Restarting' BY <1>3 DEF Restarting, SsrQueued
<1>5. CASE handle.st = "stale"
  <2>1. Restarting' BY <1>4, <1>5 DEF CoverInv
  <2> QED BY <2>1 DEF CoverInv, WillReopen
<1>6. CASE handle.st = "closed" /\ modem = "down"
  <2>1. Restarting' BY <1>3, <1>6 DEF Restarting
  <2> QED BY <2>1 DEF CoverInv, WillReopen
<1>7. CASE ~ (handle.st = "stale" \/ (handle.st = "closed" /\ modem = "down"))
  <2>1. handle'.st = "open" /\ handle'.mask = handle.mask \cup m BY <1>3, <1>7 DEF Open
  <2>2. ASSUME NEW a \in registered PROVE WillReopen' \/ Asked(a)'
    <3>1. CASE mEvtMask[a] \subseteq getEvtMask
      BY <1>2, <1>3, <2>1, <3>1 DEF Asked, IsOpen, array
    <3>2. CASE \E b \in Adapters : pc[b] \in {"fill", "trim"}
      <4>1. \E b \in Adapters : Reads(b)' BY <1>3, <3>2 DEF Reads, array
      <4> QED BY <4>1 DEF WillReopen
    <3> QED BY <3>1, <3>2, ReadCovers
  <2>3. registered' = registered BY <1>3 DEF array
  <2> QED BY <2>1, <2>2, <2>3 DEF CoverInv
<1> QED BY <1>5, <1>6, <1>7

LEMMA OthersCover ==
    ASSUME ArrayInv, CoverInv,
           LocOpenMsg \/ LocSsrMsg \/ Reopen \/ Upcalls \/ Crash \/ ComesUp
    PROVE  CoverInv'
<1>1. Types BY DEF ArrayInv
<1>2. CASE LocOpenMsg BY <1>2, OpenCover
<1>3. CASE LocSsrMsg
  <2>1. mt' = "reopen" /\ handle'.st = "closed" BY <1>3 DEF LocSsrMsg, Closed
  <2> QED BY <2>1 DEF CoverInv, WillReopen
<1>4. CASE Reopen BY <1>4, ReopenCover
<1>5. CASE EngineUp
  <2>1. {} \in SUBSET Events OBVIOUS
  <2>2. SsrQueued' BY <1>1, <1>5, <2>1, AppendKeeps DEF EngineUp, SsrQueued
  <2> QED BY <2>2 DEF CoverInv, WillReopen, Restarting
<1>6. CASE Upcalls /\ ~ EngineUp
  <2>1. UNCHANGED <<array, task, modem>>
    BY <1>6 DEF Upcalls, DeliverToAll, DeliverToFirst, Deliver, LoopCheck, LoopEnd, LoopTakes,
                LoopPasses, LoopCall
  <2>2. Restarting' <=> Restarting BY <2>1 DEF Restarting, SsrQueued, task
  <2>3. WillReopen' <=> WillReopen BY <2>1, <2>2 DEF WillReopen, Reads, array, task
  <2>4. \A a : Asked(a)' <=> Asked(a)
    BY <2>1 DEF Asked, AboutToPost, OpenQueued, IsOpen, array, task
  <2> QED BY <2>1, <2>2, <2>3, <2>4 DEF CoverInv, array, task
<1>7. CASE Crash \/ ComesUp
  <2>1. Restarting' BY <1>7 DEF Crash, ComesUp, Restarting
  <2> QED BY <2>1 DEF CoverInv, WillReopen
<1> QED BY <1>2, <1>3, <1>4, <1>5, <1>6, <1>7

-----------------------------------------------------------------------------
AdaptersInv == crossed \/ (ArrayInv /\ LoopInv /\ CoverInv)

LEMMA InitAdapters ==
    ASSUME Init
    PROVE  AdaptersInv
<1> USE SlotsAre DEF Init
<1>1. \A a \in Adapters : pc[a] = "unborn" OBVIOUS
<1>2. Types
  <2>1. tmp \in [Adapters -> [i : 0 .. MAX_ADAPTERS, mask : SUBSET Events,
                              next : {"idle", "gone"}]]
    BY DEF NoLocals
  <2>2. /\ loop \in [at : {"idle", "check", "call", "end"}, kind : {"all", "first"},
                     i : Nat \ {0}, told : Seq(Adapters \cup {NULL}), taken : Nat,
                     wild : BOOLEAN, present : SUBSET Adapters, disturbed : BOOLEAN]
        /\ loop.at = "idle"
    BY EmptySeq DEF Idle
  <2>3. msgq \in Seq([kind : {"LocOpenMsg", "LocSsrMsg"}, mask : SUBSET Events]) BY EmptySeq
  <2> QED BY <2>1, <2>2, <2>3 DEF Types, Places
<1>3. AloneInv BY <1>1 DEF AloneInv, Changing
<1>4. ShapeInv
  <2>1. Compact(0)
    <3>1. \A a \in Adapters : a # NULL BY AdaptersAssumption
    <3> QED BY <3>1 DEF Compact, Filled, Distinct, Holds
  <2> QED BY <1>1, <2>1 DEF ShapeInv
<1>5. PlaceInv BY DEF PlaceInv
<1>6. LoopInv BY DEF LoopInv, Idle
<1>7. CoverInv BY DEF CoverInv
<1> QED BY <1>2, <1>3, <1>4, <1>5, <1>6, <1>7 DEF AdaptersInv, ArrayInv

LEMMA OwnerArray ==
    ASSUME ArrayInv, NEW a \in Adapters, Owner(a), ~ crossed'
    PROVE  ArrayInv'
BY AddFindArray, AddStoreArray, AddAnnounceArray, UpdateMaskArray, RenewArray, PostArray,
   RemoveClearArray, RemoveFillArray, RemoveTrimArray, RemoveLeaveArray DEF Owner

LEMMA NextAdapters ==
    ASSUME AdaptersInv, [Next]_vars
    PROVE  AdaptersInv'
<1> SUFFICES ASSUME ~ crossed' PROVE ArrayInv' /\ LoopInv' /\ CoverInv' BY DEF AdaptersInv
<1>1. CASE \E a \in Adapters : Owner(a)
  <2>1. PICK a \in Adapters : Owner(a) BY <1>1
  <2>2. ~ crossed
    BY <2>1 DEF Owner, Cross, AddFind, AddStore, AddAnnounce, UpdateMask, Renew, Post,
                RemoveClear, RemoveFill, RemoveTrim, RemoveLeave
  <2>3. ArrayInv /\ LoopInv /\ CoverInv BY <2>2 DEF AdaptersInv
  <2>4. ArrayInv' BY <2>1, <2>3, OwnerArray
  <2> QED BY <2>1, <2>3, <2>4, OwnerLoop, OwnerCover
<1>2. CASE LocOpenMsg \/ LocSsrMsg \/ Reopen \/ Crash \/ ComesUp
  <2>1. UNCHANGED array /\ loop' = loop
    BY <1>2 DEF LocOpenMsg, LocSsrMsg, Reopen, Crash, ComesUp
  <2>2. ArrayInv /\ LoopInv /\ CoverInv BY <2>1 DEF AdaptersInv, array
  <2>3. ArrayInv' BY <1>2, <2>2, TaskArray, ModemArray
  <2>4. CoverInv' BY <1>2, <2>2, OthersCover
  <2>5. Types /\ (Compacting' => Compacting) /\ UNCHANGED <<mLocAdapters, registered>>
    BY <2>1, <2>2 DEF ArrayInv, Compacting, array
  <2>6. LoopInv' BY <2>1, <2>2, <2>5, StillLoop
  <2> QED BY <2>3, <2>4, <2>6
<1>3. CASE Upcalls
  <2>1. UNCHANGED array
    BY <1>3 DEF Upcalls, DeliverToAll, DeliverToFirst, Deliver, LoopCheck, LoopEnd, LoopTakes,
                LoopPasses, LoopCall, EngineUp
  <2>2. ArrayInv /\ LoopInv /\ CoverInv BY <2>1 DEF AdaptersInv, array
  <2> QED BY <1>3, <2>2, UpcallArray, UpcallLoop, OthersCover
<1>4. CASE UNCHANGED vars
  <2>1. UNCHANGED array /\ UNCHANGED <<task, modem, loop>> BY <1>4 DEF vars
  <2>2. ArrayInv /\ LoopInv /\ CoverInv BY <2>1 DEF AdaptersInv, array
  <2>3. Types' BY <2>1, <2>2 DEF ArrayInv, Types, array, task
  <2>4. ArrayInv' BY <2>1, <2>2, <2>3, StillOwners
  <2>5. Types /\ (Compacting' => Compacting) /\ UNCHANGED <<mLocAdapters, registered>>
    BY <2>1, <2>2 DEF ArrayInv, Compacting, array
  <2>6. LoopInv' BY <2>1, <2>2, <2>5, StillLoop
  <2>7. (Restarting' <=> Restarting) /\ (WillReopen' <=> WillReopen)
    BY <2>1 DEF WillReopen, Restarting, SsrQueued, Reads, array, task
  <2>8. \A a : Asked(a)' <=> Asked(a)
    BY <2>1 DEF Asked, AboutToPost, OpenQueued, IsOpen, array, task
  <2>9. CoverInv' BY <2>1, <2>2, <2>7, <2>8 DEF CoverInv, array, task
  <2> QED BY <2>4, <2>6, <2>9
<1> QED BY <1>1, <1>2, <1>3, <1>4 DEF Next

LEMMA AdaptersInvariant == Spec => []AdaptersInv
BY InitAdapters, NextAdapters, PTL DEF Spec

(***************************************************************************)
(* Once the queue is drained the modem reports every event that some       *)
(* registered adapter asks for (addAdapter, removeAdapter, updateEvtMask,  *)
(* LocOpenMsg and LocSsrMsg of LocApiBase).                                *)
(***************************************************************************)
THEOREM SubscribedCorrect == Spec => []Subscribed
<1>1. AdaptersInv => Subscribed
  <2> SUFFICES ASSUME AdaptersInv, AtRest, ~ crossed, registered # {}
               PROVE  /\ handle.st = "open"
                      /\ \A a \in registered : mEvtMask[a] \subseteq handle.mask
    BY DEF Subscribed
  <2>1. ArrayInv /\ CoverInv BY DEF AdaptersInv
  <2>2. \A a \in Adapters : pc[a] \in {"unborn", "idle", "gone"} BY DEF AtRest
  <2>3. DOMAIN msgq = {} BY EmptySeq DEF AtRest
  <2>4. ~ WillReopen
    BY <2>2, <2>3 DEF WillReopen, Restarting, SsrQueued, Reads, AtRest
  <2>5. ASSUME NEW a \in registered PROVE IsOpen(a)
    <3>1. a \in Adapters BY <2>1 DEF ArrayInv, Types
    <3> QED BY <2>1, <2>2, <2>3, <2>4, <3>1 DEF CoverInv, Asked, AboutToPost, OpenQueued
  <2> QED BY <2>5 DEF IsOpen
<1> QED BY <1>1, AdaptersInvariant, PTL

(***************************************************************************)
(* An upcall during which nobody is removed reaches every adapter that was *)
(* registered when it began, once each, and calls none that is gone; a     *)
(* request of the modem is taken at most once, and passed over only if all *)
(* have refused it (TO_ALL_LOCADAPTERS and TO_1ST_HANDLING_LOCADAPTERS).   *)
(***************************************************************************)
THEOREM EachToldOnceCorrect == Spec => []EachToldOnce
<1>1. AdaptersInv => EachToldOnce
  <2> SUFFICES ASSUME AdaptersInv, loop.at = "end", ~ loop.disturbed, ~ crossed
               PROVE  /\ ~ loop.wild
                      /\ \A m, n \in DOMAIN loop.told : m # n => loop.told[m] # loop.told[n]
                      /\ loop.kind = "first" => loop.taken <= 1
                      /\ (loop.kind = "all" \/ loop.taken = 0) =>
                             loop.present \subseteq {loop.told[n] : n \in DOMAIN loop.told}
    BY DEF EachToldOnce
  <2>1. ArrayInv /\ LoopInv /\ Types BY DEF AdaptersInv, ArrayInv
  <2>2. PICK q \in Seq(Adapters \cup {NULL}) : q = loop.told BY <2>1 DEF Types
  <2>3. DOMAIN q = 1 .. Len(q) /\ Len(q) = loop.i - 1 BY <2>1, <2>2 DEF LoopInv
  <2>4. DOMAIN loop.told = 1 .. loop.i - 1 BY <2>2, <2>3
  <2>5. PICK L \in 0 .. MAX_ADAPTERS : Compact(L) BY <2>1 DEF LoopInv, ArrayInv, ShapeInv
  <2>6. \A m, n \in DOMAIN loop.told : m # n => loop.told[m] # loop.told[n]
    BY <2>1, <2>4, <2>5 DEF LoopInv, Compact, Distinct
  <2>7. (loop.kind = "all" \/ loop.taken = 0) => \A a \in loop.present : ToldOf(a)
    BY <2>1 DEF LoopInv
  <2>8. (loop.kind = "all" \/ loop.taken = 0) =>
            loop.present \subseteq {loop.told[n] : n \in DOMAIN loop.told}
    BY <2>4, <2>7 DEF ToldOf
  <2> QED BY <2>1, <2>6, <2>8 DEF LoopInv
<1> QED BY <1>1, AdaptersInvariant, PTL

=============================================================================
