------------------------ MODULE TileReductionProofs ------------------------
(***************************************************************************)
(* Theorems about TileReduction, for every number and size of tiles: the   *)
(* work-items of a tile are in the same round, which the barrier keeps so, *)
(* and within one round they work on disjoint elements.                    *)
(***************************************************************************)
EXTENDS TileReduction, SetSums, TLAPS

(* The work-items of a tile agree on i, and where each is fits its i.      *)
SameRound ==
  \A id, jd \in WorkItems : Tile(id) = Tile(jd) => i[id] = i[jd]

InRound(id) ==
  /\ pc[id] = "load" => i[id] = TileSize
  /\ pc[id] = "barrier" => i[id] > 0
  /\ pc[id] \in {"readLow", "readHigh", "write"} =>
       /\ 0 < i[id] /\ Local(id) < i[id]
       /\ 2 * i[id] <= TileSize
  /\ pc[id] \in {"output", "done"} => i[id] = 0

Rounds == SameRound /\ \A id \in WorkItems : InRound(id)

Invariant == TypeOK /\ Rounds

LEMMA Halving ==
  ASSUME NEW n \in Nat
  PROVE  Half(n) \in Nat /\ 2 * Half(n) <= n
BY DEF Half

LEMMA HalfType ==
  ASSUME NEW n \in {TileSize} \cup 0 .. TileSize \div 2
  PROVE  /\ n \in Nat
         /\ Half(n) \in 0 .. TileSize \div 2
         /\ 2 * Half(n) <= TileSize
BY GridAssumption DEF Half

LEMMA Parts ==
  ASSUME NEW id \in WorkItems
  PROVE  /\ Tile(id) \in Tiles
         /\ Local(id) \in Locals
         /\ Local(id) \in Nat /\ Local(id) < TileSize
         /\ id = <<Tile(id), Local(id)>>
BY GridAssumption DEF WorkItems, Tile, Local, Tiles, Locals

LEMMA InputType ==
  ASSUME NEW id \in WorkItems
  PROVE  Input(id) \in Int
<1> DEFINE global == Tile(id) * TileSize + Local(id)
<1>1. /\ Tile(id) \in Nat /\ Tile(id) <= NumTiles - 1
      /\ Local(id) \in Nat /\ Local(id) < TileSize
      /\ TileSize \in Nat /\ NumTiles \in Nat
  BY Parts, GridAssumption DEF Tiles
<1>2. (NumTiles - 1 - Tile(id)) * TileSize >= 0
  <2> DEFINE d == NumTiles - 1 - Tile(id)
  <2>1. d \in Nat
    BY <1>1
  <2>2. d * TileSize >= 0
    BY <2>1, <1>1
  <2> QED
    BY <2>2
<1>3. Tile(id) * TileSize <= NumTiles * TileSize - TileSize
  BY <1>1, <1>2
<1>4. Tile(id) * TileSize \in Nat /\ Grid \in Nat /\ Grid = NumTiles * TileSize
  BY <1>1 DEF Grid
<1>5. global \in Nat /\ global < Grid
  BY <1>1, <1>3, <1>4
<1>6. global \in 0 .. NUM - 1 /\ global + Grid \in 0 .. NUM - 1
  BY <1>4, <1>5 DEF NUM
<1> QED
  BY <1>6 DEF Input, a

LEMMA InitInvariant == Init => Invariant
<1> SUFFICES ASSUME Init PROVE Invariant
  OBVIOUS
<1>1. TypeOK
  BY GridAssumption DEF Init, TypeOK
<1>2. Rounds
  BY GridAssumption DEF Init, Rounds, SameRound, InRound
<1> QED
  BY <1>1, <1>2 DEF Invariant

(* The steps of a work-item leave i alone. *)
LEMMA WorkItemInvariant ==
  ASSUME Invariant, NEW id \in WorkItems, WorkItem(id)
  PROVE  Invariant'
<1> USE DEF Invariant
<1>1. Tile(id) \in Tiles /\ Local(id) \in Locals /\ Input(id) \in Int /\ 0 \in Locals
  BY Parts, InputType, GridAssumption DEF Locals
<1>2. i' = i /\ printed' = printed
  BY DEF WorkItem, Load, ReadLow, ReadHigh, Write, Output
<1>3. CASE Load(id)
  <2>1. TypeOK'
    BY <1>1, <1>2, <1>3 DEF Load, Goto, TypeOK
  <2>2. Rounds'
    BY <1>2, <1>3, GridAssumption DEF Load, Goto, TypeOK, Rounds, SameRound, InRound
  <2> QED
    BY <2>1, <2>2
<1>4. CASE ReadLow(id)
  <2>1. TypeOK'
    BY <1>1, <1>2, <1>4 DEF ReadLow, Goto, TypeOK
  <2>2. Rounds'
    BY <1>2, <1>4 DEF ReadLow, Goto, TypeOK, Rounds, SameRound, InRound
  <2> QED
    BY <2>1, <2>2
<1>5. CASE ReadHigh(id)
  <2>1. Partner(id) \in Locals
    <3>1. 0 < i[id] /\ Local(id) < i[id] /\ 2 * i[id] <= TileSize
      BY <1>5 DEF ReadHigh, Goto, Rounds, InRound
    <3>2. i[id] \in Int
      BY HalfType, GridAssumption DEF TypeOK
    <3> QED
      BY <3>1, <3>2, Parts, GridAssumption DEF Partner, Locals
  <2>2. TypeOK'
    BY <1>1, <1>2, <1>5, <2>1 DEF ReadHigh, Goto, TypeOK
  <2>3. Rounds'
    BY <1>2, <1>5 DEF ReadHigh, Goto, TypeOK, Rounds, SameRound, InRound
  <2> QED
    BY <2>2, <2>3
<1>6. CASE Write(id)
  <2>1. TypeOK'
    BY <1>1, <1>2, <1>6 DEF Write, Goto, TypeOK
  <2>2. Rounds'
    BY <1>2, <1>6 DEF Write, Goto, TypeOK, Rounds, SameRound, InRound
  <2> QED
    BY <2>1, <2>2
<1>7. CASE Output(id)
  <2>1. TypeOK'
    BY <1>1, <1>2, <1>7 DEF Output, Goto, TypeOK
  <2>2. Rounds'
    BY <1>2, <1>7 DEF Output, Goto, TypeOK, Rounds, SameRound, InRound
  <2> QED
    BY <2>1, <2>2
<1> QED
  BY <1>3, <1>4, <1>5, <1>6, <1>7 DEF WorkItem

(* The barrier lets a whole tile pass, each with i halved. *)
LEMMA PassInvariant ==
  ASSUME Invariant, NEW tile \in Tiles, PassBarrier(tile)
  PROVE  Invariant'
<1> USE DEF Invariant
<1>1. \A id \in WorkItems : Tile(id) = tile => pc[id] = "barrier"
  BY Parts DEF PassBarrier, MayPass
<1>2. \A id \in WorkItems :
        /\ i'[id] = IF Tile(id) = tile THEN Half(i[id]) ELSE i[id]
        /\ pc'[id] = IF Tile(id) = tile THEN AfterBarrier(id, Half(i[id])) ELSE pc[id]
  BY <1>1 DEF PassBarrier
<1>3. \A id \in WorkItems :
        /\ i[id] \in Nat
        /\ Half(i[id]) \in 0 .. TileSize \div 2
        /\ 2 * Half(i[id]) <= TileSize
  BY HalfType DEF TypeOK
<1>4. \A id \in WorkItems :
        /\ AfterBarrier(id, Half(i[id])) \in {"barrier", "readLow", "output"}
        /\ AfterBarrier(id, Half(i[id])) = "output" <=> Half(i[id]) = 0
        /\ AfterBarrier(id, Half(i[id])) = "readLow" => Local(id) < Half(i[id])
  BY <1>3 DEF AfterBarrier, Active
<1>5. TypeOK'
  <2>1. i' \in [WorkItems -> {TileSize} \cup 0 .. TileSize \div 2]
    BY <1>2, <1>3 DEF PassBarrier, TypeOK
  <2>2. pc' \in [WorkItems -> {"load", "barrier", "readLow", "readHigh", "write", "output", "done"}]
    BY <1>2, <1>4 DEF PassBarrier, TypeOK
  <2> QED
    BY <2>1, <2>2 DEF PassBarrier, TypeOK
<1>6. SameRound'
  BY <1>2 DEF Rounds, SameRound
<1>7. ASSUME NEW id \in WorkItems PROVE InRound(id)'
  <2>1. CASE Tile(id) = tile
    <3>1. Half(i[id]) \in Nat /\ (Half(i[id]) > 0 <=> Half(i[id]) # 0)
      BY <1>3, Halving
    <3>2. pc'[id] = AfterBarrier(id, Half(i[id])) /\ i'[id] = Half(i[id])
      BY <1>2, <2>1
    <3> QED
      BY <1>3, <1>4, <3>1, <3>2 DEF InRound
  <2>2. CASE Tile(id) # tile
    BY <1>2, <2>2 DEF Rounds, InRound
  <2> QED
    BY <2>1, <2>2
<1> QED
  BY <1>5, <1>6, <1>7 DEF Rounds

LEMMA StepInvariant == Invariant /\ [Next]_vars => Invariant'
<1> SUFFICES ASSUME Invariant, [Next]_vars PROVE Invariant'
  OBVIOUS
<1>1. CASE UNCHANGED vars
  BY <1>1 DEF vars, Invariant, TypeOK, Rounds, SameRound, InRound
<1>2. CASE PrintSums
  <2>1. /\ UNCHANGED <<pc, i, r, tmp, b>>
        /\ DOMAIN printed' = 1 .. 2
    BY <1>2 DEF PrintSums
  <2> QED
    BY <2>1 DEF Invariant, TypeOK, Rounds, SameRound, InRound
<1>3. CASE \E id \in WorkItems : WorkItem(id)
  BY <1>3, WorkItemInvariant
<1>4. CASE \E tile \in Tiles : PassBarrier(tile)
  BY <1>4, PassInvariant
<1> QED
  BY <1>1, <1>2, <1>3, <1>4 DEF Next

LEMMA InvariantHolds == Spec => []Invariant
BY InitInvariant, StepInvariant, PTL DEF Spec

(* The locals of the work-items, the memory of the tiles and the sums keep *)
(* their types, in every order the work-items run.                         *)
THEOREM TypeCorrectness == Spec => []TypeOK
BY InvariantHolds, PTL DEF Invariant

LEMMA InvariantExcludesRace == Invariant => NoRace
<1> SUFFICES ASSUME Invariant,
                    NEW id \in WorkItems, NEW jd \in WorkItems
             PROVE  /\ Reads(id) \cup Writes(id) \subseteq Locals
                    /\ Tile(id) = Tile(jd) /\ id # jd =>
                         Writes(id) \cap (Reads(jd) \cup Writes(jd)) = {}
  BY DEF NoRace
<1>1. /\ i[id] \in Nat /\ i[jd] \in Nat
      /\ Local(id) \in Nat /\ Local(id) < TileSize
      /\ Local(jd) \in Nat /\ Local(jd) < TileSize
      /\ TileSize \in Nat
  BY HalfType, Parts, GridAssumption DEF Invariant, TypeOK
<1>2. InRound(id) /\ InRound(jd)
  BY DEF Invariant, Rounds
<1>3. Reads(id) \cup Writes(id) \subseteq Locals
  BY <1>1, <1>2 DEF InRound, Reads, Writes, Partner, Locals
<1>4. ASSUME Tile(id) = Tile(jd), id # jd
      PROVE  Writes(id) \cap (Reads(jd) \cup Writes(jd)) = {}
  <2>1. Local(id) # Local(jd)
    BY <1>4, Parts
  <2>2. i[id] = i[jd]
    BY <1>4 DEF Invariant, Rounds, SameRound
  <2>3. Writes(id) \cap Writes(jd) = {}
    BY <2>1 DEF Writes
  <2>4. Writes(id) # {} => i[id] > 0 /\ (pc[id] = "load" \/ Local(id) < i[id])
    BY <1>1, <1>2, GridAssumption DEF Writes, InRound
  <2>5. Reads(jd) # {} => 2 * i[jd] <= TileSize
    BY <1>1, <1>2, GridAssumption DEF Reads, InRound
  <2>6. pc[id] = "load" => 2 * i[id] > TileSize
    BY <1>1, <1>2, GridAssumption DEF InRound
  <2>7. \A l \in Reads(jd) : l = Local(jd) \/ l >= i[jd] \/ i[jd] = 0
    BY <1>1, <1>2 DEF Reads, Partner, InRound
  <2>8. Writes(id) \subseteq {Local(id)}
    BY DEF Writes
  <2> QED
    BY <1>1, <2>1, <2>2, <2>3, <2>4, <2>5, <2>6, <2>7, <2>8
<1> QED
  BY <1>3, <1>4

(* Between two barriers of reduce.cpp, no work-item writes an element of   *)
(* tmp that another one of its tile accesses.                              *)
THEOREM NoRaceHolds == Spec => []NoRace
BY InvariantHolds, InvariantExcludesRace, PTL

(* The barrier of the loop is reached by all work-items of the tile or by  *)
(* none.                                                                   *)
THEOREM NoDivergenceHolds == Spec => []NoDivergence
<1>1. Invariant => NoDivergence
  <2> SUFFICES ASSUME Invariant,
                      NEW id \in WorkItems, NEW jd \in WorkItems,
                      Tile(id) = Tile(jd), pc[id] = "barrier"
               PROVE  pc[jd] \notin {"output", "done"}
    BY DEF NoDivergence
  <2>1. i[id] = i[jd] /\ InRound(id) /\ InRound(jd) /\ i[id] \in Nat
    BY HalfType DEF Invariant, TypeOK, Rounds, SameRound
  <2> QED
    BY <2>1 DEF InRound
<1> QED
  BY <1>1, InvariantHolds, PTL
------------------------------------------------------------------------------
(* The sums.  What each work-item of a tile still has to contribute in its *)
(* round: its two elements of a, or the two elements of tmp that it adds,  *)
(* or its element of tmp.                                                  *)

Round(tile) == i[<<tile, 0>>]

Adding(id) == pc[id] \in {"readLow", "readHigh", "write"}

Pair(tile, l) == tmp[tile][l] + tmp[tile][l + Round(tile)]

Share(tile, l) ==
  IF pc[<<tile, l>>] = "load" THEN Input(<<tile, l>>)
  ELSE IF Adding(<<tile, l>>) THEN Pair(tile, l)
  ELSE tmp[tile][l]

Contribution(tile) == [l \in Locals |-> Share(tile, l)]

(* The elements that hold the sum of a tile in round n.                    *)
Left(n) == IF n = 0 THEN {0} ELSE 0 .. n - 1

Registers(tile) ==
  \A l \in Locals :
    /\ pc[<<tile, l>>] = "readHigh" => r[<<tile, l>>] = tmp[tile][l]
    /\ pc[<<tile, l>>] = "write" => r[<<tile, l>>] = Pair(tile, l)

TileKeepsSum(tile) ==
  /\ Round(tile) = 0 \/ PowerOfTwo(Round(tile))
  /\ SumFunctionOnSet(Contribution(tile), Left(Round(tile))) = TileSum(tile)
  /\ Registers(tile)
  /\ pc[<<tile, 0>>] = "done" => b[tile] = TileSum(tile)

Printed == printed = <<>> \/ printed = <<SumFunction(a), SumFunction(a)>>

Sums == Printed /\ \A tile \in Tiles : TileKeepsSum(tile)

LEMMA HalfOfPower ==
  ASSUME NEW n \in Nat, PowerOfTwo(n)
  PROVE  n = 1 \/ (n = 2 * Half(n) /\ PowerOfTwo(Half(n)))
<1> SUFFICES ASSUME n # 1 PROVE n = 2 * Half(n) /\ PowerOfTwo(Half(n))
  OBVIOUS
<1>1. n > 0 /\ \A p, q \in 1 .. n : n = p * q /\ p % 2 = 1 => p = 1
  BY DEF PowerOfTwo
<1>2. n % 2 # 1
  <2>1. n \in 1 .. n /\ 1 \in 1 .. n /\ n = n * 1
    BY <1>1
  <2> QED
    BY <1>1, <2>1
<1>3. n = 2 * Half(n) /\ Half(n) \in Nat /\ Half(n) > 0
  BY <1>1, <1>2 DEF Half
<1>4. ASSUME NEW p \in 1 .. Half(n), NEW q \in 1 .. Half(n), Half(n) = p * q, p % 2 = 1
      PROVE  p = 1
  <2>1. p * (2 * q) = 2 * (p * q)
    OBVIOUS
  <2>2. n = p * (2 * q)
    BY <1>3, <1>4, <2>1
  <2>3. p \in 1 .. n /\ 2 * q \in 1 .. n
    BY <1>3
  <2> QED
    BY <1>1, <1>4, <2>2, <2>3
<1> QED
  BY <1>3, <1>4 DEF PowerOfTwo

(* Where a work-item of a tile is, in terms of the round of the tile.      *)
LEMMA InTile ==
  ASSUME Invariant, NEW tile \in Tiles, NEW l \in Locals
  PROVE  /\ <<tile, l>> \in WorkItems /\ <<tile, 0>> \in WorkItems
         /\ Tile(<<tile, l>>) = tile /\ Local(<<tile, l>>) = l
         /\ l \in Nat /\ l < TileSize /\ TileSize \in Nat /\ 0 \in Locals
         /\ Round(tile) \in Nat /\ Round(tile) <= TileSize
         /\ i[<<tile, l>>] = Round(tile)
         /\ pc[<<tile, l>>] = "load" => Round(tile) = TileSize
         /\ pc[<<tile, l>>] = "barrier" => Round(tile) > 0
         /\ Adding(<<tile, l>>) => /\ 0 < Round(tile) /\ l < Round(tile)
                                   /\ 2 * Round(tile) <= TileSize
         /\ pc[<<tile, l>>] \in {"output", "done"} => Round(tile) = 0
<1>1. l \in Nat /\ l < TileSize /\ TileSize \in Nat /\ 0 \in Locals
  BY GridAssumption DEF Locals
<1>2. /\ <<tile, l>> \in WorkItems /\ <<tile, 0>> \in WorkItems
      /\ Tile(<<tile, l>>) = tile /\ Local(<<tile, l>>) = l
      /\ Tile(<<tile, 0>>) = tile
  BY <1>1 DEF WorkItems, Tile, Local
<1>3. i[<<tile, l>>] = Round(tile) /\ InRound(<<tile, l>>)
  BY <1>2, Zenon DEF Invariant, Rounds, SameRound, Round
<1>4. Round(tile) \in {TileSize} \cup 0 .. TileSize \div 2
  BY <1>2 DEF Invariant, TypeOK, Round
<1>5. Round(tile) \in Nat /\ Round(tile) <= TileSize
  BY <1>1, <1>4, HalfType
<1>6. /\ pc[<<tile, l>>] = "load" => Round(tile) = TileSize
      /\ pc[<<tile, l>>] = "barrier" => Round(tile) > 0
      /\ Adding(<<tile, l>>) => /\ 0 < Round(tile) /\ l < Round(tile)
                                /\ 2 * Round(tile) <= TileSize
      /\ pc[<<tile, l>>] \in {"output", "done"} => Round(tile) = 0
  BY <1>2, <1>3 DEF InRound, Adding
<1> QED
  BY <1>1, <1>2, <1>3, <1>5, <1>6
(* What a step of a work-item leaves alone.                                *)
LEMMA OthersUnchanged ==
  ASSUME Invariant, NEW id \in WorkItems, WorkItem(id),
         NEW tile \in Tiles, NEW l \in Locals, <<tile, l>> # id
  PROVE  /\ pc'[<<tile, l>>] = pc[<<tile, l>>]
         /\ r'[<<tile, l>>] = r[<<tile, l>>]
         /\ tmp'[tile][l] = tmp[tile][l]
<1>1. /\ <<tile, l>> \in WorkItems
      /\ id = <<Tile(id), Local(id)>> /\ Tile(id) \in Tiles /\ Local(id) \in Locals
      /\ tile # Tile(id) \/ l # Local(id)
  BY Parts DEF WorkItems
<1>2. /\ pc \in [WorkItems -> {"load", "barrier", "readLow", "readHigh", "write", "output", "done"}]
      /\ r \in [WorkItems -> Int]
      /\ tmp \in [Tiles -> [Locals -> Int]]
  BY DEF Invariant, TypeOK
<1>3. CASE Load(id)
  BY <1>1, <1>2, <1>3 DEF Load, Goto
<1>4. CASE ReadLow(id)
  BY <1>1, <1>2, <1>4 DEF ReadLow, Goto
<1>5. CASE ReadHigh(id)
  BY <1>1, <1>2, <1>5 DEF ReadHigh, Goto
<1>6. CASE Write(id)
  BY <1>1, <1>2, <1>6 DEF Write, Goto
<1>7. CASE Output(id)
  BY <1>1, <1>2, <1>7 DEF Output, Goto
<1> QED
  BY <1>3, <1>4, <1>5, <1>6, <1>7 DEF WorkItem

(* What it does to its own register and element.                           *)
LEMMA OwnEffects ==
  ASSUME Invariant, NEW tile \in Tiles, NEW l \in Locals, WorkItem(<<tile, l>>)
  PROVE  LET id == <<tile, l>> IN
         \/ /\ pc[id] = "load" /\ pc'[id] = "barrier"
            /\ tmp'[tile][l] = Input(id)
         \/ /\ pc[id] = "readLow" /\ pc'[id] = "readHigh"
            /\ r'[id] = tmp[tile][l] /\ tmp' = tmp
         \/ /\ pc[id] = "readHigh" /\ pc'[id] = "write"
            /\ r'[id] = r[id] + tmp[tile][l + Round(tile)] /\ tmp' = tmp
         \/ /\ pc[id] = "write" /\ pc'[id] = "barrier"
            /\ tmp'[tile][l] = r[id]
         \/ /\ pc[id] = "output" /\ pc'[id] = "done" /\ tmp' = tmp
<1> DEFINE id == <<tile, l>>
<1>1. id \in WorkItems /\ Tile(id) = tile /\ Local(id) = l /\ i[id] = Round(tile)
  BY InTile
<1>2. /\ pc \in [WorkItems -> {"load", "barrier", "readLow", "readHigh", "write", "output", "done"}]
      /\ r \in [WorkItems -> Int]
      /\ tmp \in [Tiles -> [Locals -> Int]]
  BY DEF Invariant, TypeOK
<1> HIDE DEF id
<1>3. CASE Load(id)
  BY <1>1, <1>2, <1>3 DEF Load, Goto, id
<1>4. CASE ReadLow(id)
  BY <1>1, <1>2, <1>4 DEF ReadLow, Goto, id
<1>5. CASE ReadHigh(id)
  BY <1>1, <1>2, <1>5 DEF ReadHigh, Goto, Partner, id
<1>6. CASE Write(id)
  BY <1>1, <1>2, <1>6 DEF Write, Goto, id
<1>7. CASE Output(id)
  BY <1>1, <1>2, <1>7 DEF Output, Goto, id
<1> QED
  BY <1>3, <1>4, <1>5, <1>6, <1>7 DEF WorkItem, id

(* An element that a work-item of the tile still reads is not written.     *)
LEMMA PairsUnchanged ==
  ASSUME Invariant, NEW id \in WorkItems, WorkItem(id),
         NEW tile \in Tiles, NEW l \in Locals, Adding(<<tile, l>>), <<tile, l>> # id
  PROVE  Pair(tile, l)' = Pair(tile, l)
<1> DEFINE n == Round(tile)
           k == Local(id)
<1>1. /\ n \in Nat /\ 0 < n /\ 2 * n <= TileSize /\ TileSize \in Nat
      /\ l \in Nat /\ l < n /\ l + n \in Locals
  <2>1. /\ n \in Nat /\ 0 < n /\ 2 * n <= TileSize /\ TileSize \in Nat
        /\ l \in Nat /\ l < n
    BY InTile
  <2> HIDE DEF n
  <2> QED
    BY <2>1 DEF Locals
<1>2. Round(tile)' = n
  <2>1. i' = i
    BY DEF WorkItem, Load, ReadLow, ReadHigh, Write, Output
  <2> QED
    BY <2>1 DEF Round
<1>3. tmp'[tile][l] = tmp[tile][l]
  BY OthersUnchanged
<1>4. tmp'[tile][l + n] = tmp[tile][l + n]
  <2>1. CASE <<tile, l + n>> # id
    BY <1>1, <2>1, OthersUnchanged
  <2>2. CASE <<tile, l + n>> = id
    <3>1. /\ pc[id] = "load" => n = TileSize
          /\ pc[id] = "write" => l + n < n
      BY <1>1, <2>2, InTile DEF Adding
    <3>2. pc[id] # "load" /\ pc[id] # "write"
      BY <1>1, <3>1
    <3>3. tmp' = tmp
      BY <1>1, <2>2, <3>2, OwnEffects
    <3> QED
      BY <3>3
  <2> QED
    BY <2>1, <2>2
<1> QED
  BY <1>2, <1>3, <1>4 DEF Pair

(* A step of a work-item changes nobody's share of the sum.                *)
LEMMA SharesUnchanged ==
  ASSUME Invariant, NEW id \in WorkItems, WorkItem(id),
         NEW tile \in Tiles, NEW l \in Locals, Registers(tile)
  PROVE  /\ Share(tile, l)' = Share(tile, l)
         /\ pc'[<<tile, l>>] = "readHigh" => r'[<<tile, l>>] = tmp'[tile][l]
         /\ pc'[<<tile, l>>] = "write" => r'[<<tile, l>>] = Pair(tile, l)'
<1>1. Round(tile)' = Round(tile)
  <2>1. i' = i
    BY DEF WorkItem, Load, ReadLow, ReadHigh, Write, Output
  <2> QED
    BY <2>1 DEF Round
<1>2. Input(<<tile, l>>)' = Input(<<tile, l>>)
  BY DEF Input, a, Tile, Local
<1>3. CASE <<tile, l>> # id
  <2>1. /\ pc'[<<tile, l>>] = pc[<<tile, l>>]
        /\ r'[<<tile, l>>] = r[<<tile, l>>]
        /\ tmp'[tile][l] = tmp[tile][l]
    BY <1>3, OthersUnchanged
  <2>2. Adding(<<tile, l>>) => Pair(tile, l)' = Pair(tile, l)
    BY <1>3, PairsUnchanged
  <2> QED
    BY <1>2, <2>1, <2>2 DEF Share, Registers, Adding
<1>4. CASE <<tile, l>> = id
  <2>1. WorkItem(<<tile, l>>)
    BY <1>4
  <2>2. Pair(tile, l) = tmp[tile][l] + tmp[tile][l + Round(tile)]
    BY DEF Pair
  <2>3. tmp' = tmp => Pair(tile, l)' = Pair(tile, l)
    BY <1>1 DEF Pair
  <2> DEFINE at == <<tile, l>>
  <2>4. CASE pc[at] = "load" /\ pc'[at] = "barrier" /\ tmp'[tile][l] = Input(at)
    BY <1>2, <2>4 DEF Share, Adding
  <2>5. CASE pc[at] = "readLow" /\ pc'[at] = "readHigh" /\ r'[at] = tmp[tile][l] /\ tmp' = tmp
    BY <2>3, <2>5 DEF Share, Adding
  <2>6. CASE /\ pc[at] = "readHigh" /\ pc'[at] = "write"
             /\ r'[at] = r[at] + tmp[tile][l + Round(tile)] /\ tmp' = tmp
    BY <2>2, <2>3, <2>6 DEF Share, Adding, Registers
  <2>7. CASE pc[at] = "write" /\ pc'[at] = "barrier" /\ tmp'[tile][l] = r[at]
    BY <2>7 DEF Share, Adding, Registers
  <2>8. CASE pc[at] = "output" /\ pc'[at] = "done" /\ tmp' = tmp
    BY <2>8 DEF Share, Adding
  <2> QED
    BY <2>1, <2>4, <2>5, <2>6, <2>7, <2>8, OwnEffects
<1> QED
  BY <1>3, <1>4
LEMMA ShareOfZero ==
  ASSUME Invariant, NEW tile \in Tiles, TileKeepsSum(tile),
         pc[<<tile, 0>>] \in {"output", "done"}
  PROVE  tmp[tile][0] = TileSum(tile)
<1>1. 0 \in Locals
  BY GridAssumption DEF Locals
<1>2. Round(tile) = 0
  BY <1>1, InTile
<1>3. SumFunctionOnSet(Contribution(tile), {0}) = TileSum(tile)
  BY <1>2 DEF TileKeepsSum, Left
<1>4. Contribution(tile)[0] = tmp[tile][0]
  BY <1>1 DEF Contribution, Share, Adding
<1>5. tmp[tile][0] \in Int
  BY <1>1 DEF Invariant, TypeOK
<1>6. SumFunctionOnSet(Contribution(tile), {0}) = tmp[tile][0] + 0
  <2> DEFINE S == {0}
             f == Contribution(tile)
  <2>1. IsFiniteSet(S) /\ 0 \in S /\ S \ {0} = {} /\ \A x \in S : f[x] \in Int
    BY <1>4, <1>5, FS_Singleton
  <2> HIDE DEF S, f
  <2>2. \A x \in S : SumFunctionOnSet(f, S) = f[x] + SumFunctionOnSet(f, S \ {x})
    BY <2>1, SumSplit
  <2>3. SumFunctionOnSet(f, {}) = 0
    BY SumEmpty
  <2>4. SumFunctionOnSet(f, S) = f[0] + 0
    BY <2>1, <2>2, <2>3
  <2> QED
    BY <1>4, <2>4 DEF S, f
<1> QED
  BY <1>3, <1>5, <1>6

LEMMA WorkItemSums ==
  ASSUME Invariant, Sums, NEW id \in WorkItems, WorkItem(id)
  PROVE  Sums'
<1>1. i' = i /\ printed' = printed
  BY DEF WorkItem, Load, ReadLow, ReadHigh, Write, Output
<1>2. Printed'
  BY <1>1 DEF Sums, Printed, a
<1>3. ASSUME NEW tile \in Tiles
      PROVE  TileKeepsSum(tile)'
  <2>1. TileKeepsSum(tile) /\ Registers(tile)
    BY DEF Sums, TileKeepsSum
  <2>2. Round(tile)' = Round(tile) /\ Left(Round(tile))' = Left(Round(tile))
    BY <1>1 DEF Round, Left
  <2>3. TileSum(tile)' = TileSum(tile)
    BY DEF TileSum, Input, a, Tile, Local
  <2>4. Contribution(tile)' = Contribution(tile)
    BY <2>1, SharesUnchanged DEF Contribution
  <2>5. Registers(tile)'
    BY <2>1, SharesUnchanged DEF Registers
  <2>6. PowerOfTwo(Round(tile))' <=> PowerOfTwo(Round(tile))
    BY <2>2 DEF PowerOfTwo
  <2>7. pc'[<<tile, 0>>] = "done" => b'[tile] = TileSum(tile)
    <3> SUFFICES ASSUME pc'[<<tile, 0>>] = "done" PROVE b'[tile] = TileSum(tile)
      OBVIOUS
    <3>1. 0 \in Locals
      BY GridAssumption DEF Locals
    <3>2. id = <<Tile(id), Local(id)>> /\ Tile(id) \in Tiles
      BY Parts
    <3>3. b \in [Tiles -> Int]
      BY DEF Invariant, TypeOK
    <3>4. CASE <<tile, 0>> = id
      <4>1. pc[id] = "output" /\ Output(id)
        <5>1. pc[id] = "output"
          BY <3>1, <3>4, OwnEffects
        <5> QED
          BY <5>1 DEF WorkItem, Load, ReadLow, ReadHigh, Write, Goto
      <4>2. Tile(id) = tile /\ Local(id) = 0
        BY <3>4 DEF Tile, Local
      <4>3. b'[tile] = tmp[tile][0]
        BY <3>3, <4>1, <4>2 DEF Output
      <4> QED
        BY <2>1, <3>4, <4>1, <4>3, ShareOfZero
    <3>5. CASE <<tile, 0>> # id
      <4>1. pc[<<tile, 0>>] = "done"
        BY <3>1, <3>5, OthersUnchanged
      <4>2. b'[tile] = b[tile]
        BY <3>2, <3>3, <3>5 DEF WorkItem, Load, ReadLow, ReadHigh, Write, Output
      <4> QED
        BY <2>1, <4>1, <4>2 DEF TileKeepsSum
    <3> QED
      BY <3>4, <3>5
  <2>8. Round(tile)' = 0 \/ PowerOfTwo(Round(tile))'
    BY <2>1, <2>2, <2>6 DEF TileKeepsSum
  <2>9. SumFunctionOnSet(Contribution(tile)', Left(Round(tile))') = TileSum(tile)'
    BY <2>1, <2>2, <2>3, <2>4 DEF TileKeepsSum
  <2> QED
    BY <2>3, <2>5, <2>7, <2>8, <2>9 DEF TileKeepsSum
<1> QED
  BY <1>2, <1>3 DEF Sums
(* The barrier begins the next round: the work-items below half of n take  *)
(* over the shares of the upper half.                                      *)
LEMMA PassKeepsSum ==
  ASSUME Invariant, NEW tile \in Tiles, PassBarrier(tile), TileKeepsSum(tile)
  PROVE  TileKeepsSum(tile)'
<1> DEFINE n == Round(tile)
           u == tmp[tile]
<1>1. 0 \in Locals /\ Locals = 0 .. TileSize - 1 /\ TileSize \in Nat
  BY GridAssumption DEF Locals
<1>2. \A l \in Locals : pc[<<tile, l>>] = "barrier"
  BY DEF PassBarrier, MayPass
<1>3. n \in Nat /\ n > 0 /\ n <= TileSize
  BY <1>1, <1>2, InTile
<1>4. PowerOfTwo(n)
  BY <1>3 DEF TileKeepsSum
<1>5. Half(n) \in Nat
  BY <1>3 DEF Half
<1>6. Round(tile)' = Half(n)
  <2>1. <<tile, 0>> \in WorkItems /\ Tile(<<tile, 0>>) = tile
    BY <1>1, InTile
  <2> QED
    BY <1>1, <1>2, <2>1 DEF PassBarrier, Round
<1>7. ASSUME NEW l \in Locals
      PROVE  pc'[<<tile, l>>] = IF Half(n) = 0 THEN "output"
                                ELSE IF l < Half(n) THEN "readLow" ELSE "barrier"
  <2>1. <<tile, l>> \in WorkItems /\ Tile(<<tile, l>>) = tile /\ Local(<<tile, l>>) = l
        /\ i[<<tile, l>>] = n
    BY InTile
  <2>2. pc'[<<tile, l>>] = AfterBarrier(<<tile, l>>, Half(n))
    BY <1>2, <2>1 DEF PassBarrier
  <2>3. Half(n) > 0 <=> Half(n) # 0
    BY <1>5
  <2> QED
    BY <2>1, <2>2, <2>3 DEF AfterBarrier, Active
<1>8. /\ tmp' = tmp /\ r' = r /\ b' = b
  BY DEF PassBarrier
<1>9. TileSum(tile)' = TileSum(tile)
  BY DEF TileSum, Input, a, Tile, Local
<1>10. \A l \in Locals : Contribution(tile)[l] = u[l] /\ u[l] \in Int
  BY <1>2 DEF Contribution, Share, Adding, Invariant, TypeOK
<1>11. Registers(tile)' /\ pc'[<<tile, 0>>] # "done"
  BY <1>1, <1>7 DEF Registers
<1> HIDE DEF u
<1>12. SumFunctionOnSet(Contribution(tile), 0 .. n - 1) = TileSum(tile)
  BY <1>3 DEF TileKeepsSum, Left
<1>13. SumFunctionOnSet(u, 0 .. n - 1) = TileSum(tile)
  <2>1. \A l \in 0 .. n - 1 : Contribution(tile)[l] = u[l]
    BY <1>1, <1>3, <1>10
  <2>2. IsFiniteSet(0 .. n - 1)
    BY <1>3, FiniteInterval
  <2>3. SumFunctionOnSet(Contribution(tile), 0 .. n - 1) = SumFunctionOnSet(u, 0 .. n - 1)
    BY <2>1, <2>2, SumCongruence, Zenon
  <2> QED
    BY <1>12, <2>3
<1>14. CASE n = 1
  <2>1. Half(n) = 0
    BY <1>14 DEF Half
  <2>2. \A l \in Locals : Contribution(tile)'[l] = u[l]
    BY <1>7, <1>8, <2>1 DEF Contribution, Share, Adding, u
  <2>3. SumFunctionOnSet(Contribution(tile)', {0}) = SumFunctionOnSet(u, {0})
    <3> DEFINE S == {0}
    <3>1. IsFiniteSet(S) /\ \A l \in S : Contribution(tile)'[l] = u[l]
      BY <1>1, <2>2, FS_Singleton
    <3> HIDE DEF S
    <3>2. SumFunctionOnSet(Contribution(tile)', S) = SumFunctionOnSet(u, S)
      BY <3>1, SumCongruence, Zenon
    <3> QED
      BY <3>2 DEF S
  <2>4. 0 .. n - 1 = {0}
    BY <1>14
  <2> QED
    BY <1>6, <1>9, <1>11, <1>13, <2>1, <2>3, <2>4 DEF TileKeepsSum, Left
<1>15. CASE n = 2 * Half(n) /\ PowerOfTwo(Half(n))
  <2> DEFINE h == Half(n)
  <2>1. h # 0 /\ h \in Nat /\ n = 2 * h
    BY <1>3, <1>5, <1>15
  <2>2. \A l \in 0 .. h - 1 : Contribution(tile)'[l] = u[l] + u[l + h]
    <3> TAKE l \in 0 .. h - 1
    <3>1. l \in Locals /\ l < h
      BY <1>1, <1>3, <2>1
    <3>2. pc'[<<tile, l>>] = "readLow"
      BY <1>7, <2>1, <3>1
    <3>3. Share(tile, l)' = tmp'[tile][l] + tmp'[tile][l + Round(tile)']
      BY <3>2 DEF Share, Adding, Pair
    <3> QED
      BY <1>6, <1>8, <3>1, <3>3 DEF Contribution, u
  <2>3. \A l \in 0 .. 2 * h - 1 : u[l] \in Int
    BY <1>1, <1>3, <1>10, <2>1
  <2> HIDE DEF h
  <2>4. Halves(u, Contribution(tile)', h)
    BY <2>2, <2>3, Zenon DEF Halves
  <2>5. SumFunctionOnSet(Contribution(tile)', 0 .. h - 1) = SumFunctionOnSet(u, 0 .. 2 * h - 1)
    BY <2>1, <2>4, SumHalves
  <2>6. SumFunctionOnSet(Contribution(tile)', Left(h)) = TileSum(tile)
    BY <1>13, <2>1, <2>5 DEF Left
  <2>7. Round(tile)' = h /\ PowerOfTwo(h)
    BY <1>6, <1>15 DEF h
  <2>8. PowerOfTwo(Round(tile))'
    BY <2>7 DEF PowerOfTwo
  <2>9. SumFunctionOnSet(Contribution(tile)', Left(Round(tile))') = TileSum(tile)'
    BY <1>9, <2>6, <2>7 DEF Left
  <2> QED
    BY <1>11, <2>8, <2>9 DEF TileKeepsSum
<1> QED
  BY <1>3, <1>4, <1>14, <1>15, HalfOfPower

(* A step that changes nothing of a tile.                                  *)
LEMMA TileUntouched ==
  ASSUME NEW t \in Tiles, TileKeepsSum(t),
         \A l \in Locals : pc'[<<t, l>>] = pc[<<t, l>>] /\ i'[<<t, l>>] = i[<<t, l>>],
         tmp' = tmp, r' = r, b' = b
  PROVE  TileKeepsSum(t)'
<1>1. 0 \in Locals
  BY GridAssumption DEF Locals
<1>2. Round(t)' = Round(t)
  BY <1>1 DEF Round
<1>3. \A l \in Locals : Share(t, l)' = Share(t, l)
  BY <1>2 DEF Share, Adding, Pair, Input, a, Tile, Local
<1>4. Contribution(t)' = Contribution(t)
  BY <1>3 DEF Contribution
<1>5. TileSum(t)' = TileSum(t)
  BY DEF TileSum, Input, a, Tile, Local
<1>6. PowerOfTwo(Round(t))' <=> PowerOfTwo(Round(t))
  BY <1>2 DEF PowerOfTwo
<1>7. Left(Round(t))' = Left(Round(t))
  BY <1>2 DEF Left
<1>8. Registers(t)'
  BY <1>2 DEF TileKeepsSum, Registers, Pair
<1>9. SumFunctionOnSet(Contribution(t)', Left(Round(t))') = TileSum(t)'
  BY <1>4, <1>5, <1>7 DEF TileKeepsSum
<1>10. Round(t)' = 0 \/ PowerOfTwo(Round(t))'
  BY <1>2, <1>6 DEF TileKeepsSum
<1>11. pc'[<<t, 0>>] = "done" => b'[t] = TileSum(t)'
  BY <1>1, <1>5 DEF TileKeepsSum
<1> QED
  BY <1>8, <1>9, <1>10, <1>11 DEF TileKeepsSum

LEMMA PassSums ==
  ASSUME Invariant, Sums, NEW tile \in Tiles, PassBarrier(tile)
  PROVE  Sums'
<1>1. Printed'
  BY DEF Sums, Printed, a, PassBarrier
<1>2. ASSUME NEW t \in Tiles PROVE TileKeepsSum(t)'
  <2>1. TileKeepsSum(t)
    BY DEF Sums
  <2>2. CASE t = tile
    BY <2>1, <2>2, PassKeepsSum
  <2>3. CASE t # tile
    <3>1. \A l \in Locals : /\ pc'[<<t, l>>] = pc[<<t, l>>]
                             /\ i'[<<t, l>>] = i[<<t, l>>]
      BY <2>3, InTile DEF PassBarrier
    <3>2. tmp' = tmp /\ r' = r /\ b' = b
      BY DEF PassBarrier
    <3> QED
      BY <2>1, <3>1, <3>2, TileUntouched
  <2> QED
    BY <2>2, <2>3
<1> QED
  BY <1>1, <1>2 DEF Sums

LEMMA InitSums == Init => Sums
<1> SUFFICES ASSUME Init, NEW tile \in Tiles PROVE TileKeepsSum(tile)
  BY DEF Init, Sums, Printed
<1>1. 0 \in Locals /\ Locals = 0 .. TileSize - 1 /\ TileSize # 0
  BY GridAssumption DEF Locals
<1>2. \A l \in Locals : <<tile, l>> \in WorkItems
  BY DEF WorkItems
<1>3. Round(tile) = TileSize
  BY <1>1, <1>2 DEF Init, Round
<1>4. \A l \in Locals : pc[<<tile, l>>] = "load"
  BY <1>2 DEF Init
<1>5. Contribution(tile) = [l \in Locals |-> Input(<<tile, l>>)]
  BY <1>4 DEF Contribution, Share
<1>6. SumFunctionOnSet(Contribution(tile), Left(TileSize)) = TileSum(tile)
  BY <1>1, <1>5 DEF Left, TileSum, SumFunction
<1> QED
  BY <1>1, <1>3, <1>4, <1>6, HalvingAssumption DEF TileKeepsSum, Registers

(* The sums of the tiles add up to the sum of a.                           *)
LEMMA TilesAddUp ==
  ASSUME NEW f, DOMAIN f = Tiles, \A tile \in Tiles : f[tile] = TileSum(tile)
  PROVE  SumFunction(f) = SumFunction(a)
<1> DEFINE h == [k \in 0 .. Grid - 1 |-> a[k] + a[k + Grid]]
<1>1. Grid \in Nat /\ Grid = NumTiles * TileSize /\ NumTiles \in Nat /\ TileSize \in Nat
  BY GridAssumption DEF Grid
<1>2. \A k \in 0 .. Grid - 1 : h[k] \in Int
  BY <1>1 DEF a, NUM
<1>3. ASSUME NEW t \in 0 .. NumTiles - 1
      PROVE  \E g : /\ \A l \in 0 .. TileSize - 1 : g[l] = h[t * TileSize + l]
                    /\ f[t] = SumFunctionOnSet(g, 0 .. TileSize - 1)
  <2> DEFINE g == [l \in Locals |-> Input(<<t, l>>)]
  <2>1. Locals = 0 .. TileSize - 1 /\ t \in Tiles
    BY DEF Locals, Tiles
  <2>2. f[t] = SumFunctionOnSet(g, 0 .. TileSize - 1)
    BY <2>1 DEF TileSum, SumFunction
  <2>3. ASSUME NEW l \in 0 .. TileSize - 1 PROVE g[l] = h[t * TileSize + l]
    <3> DEFINE k == t * TileSize + l
    <3>1. g[l] = a[k] + a[k + Grid]
      BY <2>1 DEF Input, Tile, Local
    <3>2. k \in 0 .. Grid - 1
      <4> DEFINE d == NumTiles - 1 - t
                 e == t * TileSize
      <4>1. d \in Nat /\ t \in Nat /\ NumTiles = d + t + 1
        BY <1>1
      <4>2. d * TileSize \in Nat /\ e \in Nat
        BY <1>1, <4>1
      <4>3. NumTiles * TileSize = d * TileSize + e + TileSize
        BY <1>1, <4>1
      <4> HIDE DEF d, e
      <4> QED
        BY <1>1, <4>2, <4>3 DEF e
    <3> HIDE DEF k
    <3> QED
      BY <3>1, <3>2 DEF k
  <2> QED
    BY <2>2, <2>3
<1> HIDE DEF h
<1>4. Blocks(h, f, NumTiles, TileSize)
  BY <1>1, <1>2, <1>3 DEF Blocks
<1>5. SumFunctionOnSet(f, 0 .. NumTiles - 1) = SumFunctionOnSet(h, 0 .. NumTiles * TileSize - 1)
  BY <1>1, <1>4, SumBlocks
<1>6. Halves(a, h, Grid)
  BY <1>1 DEF Halves, a, h, NUM
<1>7. SumFunctionOnSet(h, 0 .. Grid - 1) = SumFunctionOnSet(a, 0 .. 2 * Grid - 1)
  BY <1>1, <1>6, SumHalves
<1>8. DOMAIN a = 0 .. 2 * Grid - 1
  BY DEF a, NUM
<1> QED
  BY <1>1, <1>5, <1>7, <1>8 DEF SumFunction, Tiles

LEMMA PrintedSums ==
  ASSUME Invariant, Sums, PrintSums
  PROVE  Sums'
<1>1. \A tile \in Tiles : b[tile] = TileSum(tile)
  <2> TAKE tile \in Tiles
  <2>1. <<tile, 0>> \in WorkItems
    BY GridAssumption DEF WorkItems, Locals
  <2>2. pc[<<tile, 0>>] = "done"
    BY <2>1 DEF PrintSums, Synchronized
  <2> QED
    BY <2>2 DEF Sums, TileKeepsSum
<1>2. DOMAIN b = Tiles
  BY DEF Invariant, TypeOK
<1>3. SumFunction(b) = SumFunction(a)
  BY <1>1, <1>2, TilesAddUp
<1>4. Printed'
  BY <1>3 DEF PrintSums, Printed, a
<1>5. \A tile \in Tiles : TileKeepsSum(tile)'
  BY TileUntouched DEF PrintSums, Sums
<1> QED
  BY <1>4, <1>5 DEF Sums

LEMMA StepSums == Invariant /\ Sums /\ [Next]_vars => Sums'
<1> SUFFICES ASSUME Invariant, Sums, [Next]_vars PROVE Sums'
  OBVIOUS
<1>1. CASE UNCHANGED vars
  <2>1. Printed'
    BY <1>1 DEF vars, Sums, Printed, a
  <2>2. \A tile \in Tiles : TileKeepsSum(tile)'
    BY <1>1, TileUntouched DEF vars, Sums
  <2> QED
    BY <2>1, <2>2 DEF Sums
<1> QED
  BY <1>1, WorkItemSums, PassSums, PrintedSums DEF Next

LEMMA SumsHold == Spec => []Sums
BY InitSums, StepSums, InvariantHolds, PTL DEF Spec

(* The loop of reduce.cpp adds up every element of its tile: at each of    *)
(* its barriers the elements that are still added sum up to the elements   *)
(* of a that the tile read.                                                *)
THEOREM RoundsKeepSumHolds == Spec => []RoundsKeepSum
<1>1. Invariant /\ Sums => RoundsKeepSum
  <2> SUFFICES ASSUME Invariant, Sums, NEW tile \in Tiles,
                      \A l \in Locals : pc[<<tile, l>>] = "barrier"
               PROVE  SumFunctionOnSet(tmp[tile], {l \in Locals : l < i[<<tile, 0>>]}) = TileSum(tile)
    BY DEF RoundsKeepSum
  <2> DEFINE n == Round(tile)
  <2>1. 0 \in Locals /\ Locals = 0 .. TileSize - 1 /\ TileSize \in Nat
    BY GridAssumption DEF Locals
  <2>2. n \in Nat /\ n > 0 /\ n <= TileSize
    BY <2>1, InTile
  <2>3. {l \in Locals : l < i[<<tile, 0>>]} = 0 .. n - 1
    BY <2>1, <2>2 DEF Round
  <2>4. SumFunctionOnSet(Contribution(tile), 0 .. n - 1) = TileSum(tile)
    <3>1. TileKeepsSum(tile)
      BY DEF Sums
    <3> QED
      BY <2>2, <3>1 DEF TileKeepsSum, Left
  <2>5. \A l \in 0 .. n - 1 : Contribution(tile)[l] = tmp[tile][l]
    BY <2>1, <2>2 DEF Contribution, Share, Adding
  <2>6. IsFiniteSet(0 .. n - 1)
    BY <2>2, FiniteInterval
  <2> HIDE DEF n
  <2>7. SumFunctionOnSet(Contribution(tile), 0 .. n - 1) = SumFunctionOnSet(tmp[tile], 0 .. n - 1)
    BY <2>5, <2>6, SumCongruence, Zenon
  <2> QED
    BY <2>3, <2>4, <2>7
<1> QED
  BY <1>1, InvariantHolds, SumsHold, PTL

(* Whatever the order in which the work-items of all tiles run, the sum    *)
(* that the program prints for the device is that of the host.             *)
THEOREM ReductionsAgreeHolds == Spec => []ReductionsAgree
<1>1. Sums => ReductionsAgree
  BY DEF Sums, Printed, ReductionsAgree
<1> QED
  BY <1>1, SumsHold, PTL
=============================================================================
