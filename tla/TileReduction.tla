---------------------------- MODULE TileReduction ----------------------------
(***************************************************************************)
(* cppamp/reduce/reduce.cpp: the work-items of a grid add up an array.     *)
(* Those of one tile share tmp and meet at a barrier after each round; in  *)
(* a round the first i of them each add an element of the upper half to    *)
(* their own.  The host waits for the grid and adds the sums of the tiles. *)
(*                                                                         *)
(* Work-items run in any order and interleave at every access to tmp.      *)
(***************************************************************************)
EXTENDS Integers, Sequences, FiniteSetsExt

CONSTANTS
  TileSize,  \* 64 in the program
  NumTiles,  \* 32 in the program
  Garbage    \* what memory holds before it is written

ASSUME GridAssumption ==
  /\ TileSize \in Nat \ {0}
  /\ NumTiles \in Nat \ {0}
  /\ Garbage \in Int

(* 1 is the only odd number that divides n. *)
PowerOfTwo(n) == n > 0 /\ \A p, q \in 1 .. n : n = p * q /\ p % 2 = 1 => p = 1

(* The loop that halves i loses no element. *)
ASSUME HalvingAssumption == PowerOfTwo(TileSize)

Tiles     == 0 .. NumTiles - 1
Locals    == 0 .. TileSize - 1
WorkItems == Tiles \X Locals

Tile(id)  == id[1]
Local(id) == id[2]

Grid == TileSize * NumTiles
NUM  == 2 * Grid

a == [k \in 0 .. NUM - 1 |-> k]

VARIABLES
  pc,      \* of each work-item
  i, r,    \* locals of each work-item
  tmp,     \* tile_static, one for each tile
  b,       \* the sums of the tiles
  printed  \* by the host: the reduction of the device, and its own

vars == <<pc, i, r, tmp, b, printed>>

(* Until the loop starts i stands at twice its first value. *)
Init ==
  /\ pc = [id \in WorkItems |-> "load"]
  /\ i = [id \in WorkItems |-> TileSize]
  /\ r = [id \in WorkItems |-> Garbage]
  /\ tmp = [tile \in Tiles |-> [l \in Locals |-> Garbage]]
  /\ b = [tile \in Tiles |-> Garbage]
  /\ printed = <<>>

Goto(id, from, to) == pc[id] = from /\ pc' = [pc EXCEPT ![id] = to]

(* The two elements of a that a work-item starts with. *)
Input(id) ==
  LET global == Tile(id) * TileSize + Local(id) IN a[global] + a[global + Grid]

Load(id) ==
  /\ Goto(id, "load", "barrier")
  /\ r' = [r EXCEPT ![id] = Input(id)]
  /\ tmp' = [tmp EXCEPT ![Tile(id)][Local(id)] = Input(id)]
  /\ UNCHANGED <<i, b, printed>>

Active(id, n) == Local(id) < n

(* Mutant of AfterBarrier: who has nothing to add leaves the loop. *)
MutantBreak(id, n) ==
  IF n > 0 /\ Active(id, n) THEN "readLow" ELSE "output"

(* The loop condition, and the condition of its body. *)
AfterBarrier(id, n) ==
  CASE n = 0                     -> "output"
    [] n > 0 /\ Active(id, n)    -> "readLow"
    [] n > 0 /\ ~Active(id, n)   -> "barrier"

Half(n) == n \div 2

(* Mutant of MayPass: nobody waits. *)
MutantMayPass(tile) == \E l \in Locals : pc[<<tile, l>>] = "barrier"

MayPass(tile) == \A l \in Locals : pc[<<tile, l>>] = "barrier"

(* t_idx.barrier.wait() returns to all work-items of the tile; i is halved. *)
PassBarrier(tile) ==
  /\ MayPass(tile)
  /\ i' = [id \in WorkItems |-> IF Tile(id) = tile /\ pc[id] = "barrier" THEN Half(i[id]) ELSE i[id]]
  /\ pc' = [id \in WorkItems |-> IF Tile(id) = tile /\ pc[id] = "barrier"
                                 THEN AfterBarrier(id, Half(i[id])) ELSE pc[id]]
  /\ UNCHANGED <<r, tmp, b, printed>>

(* Mutant of Partner: the next element. *)
MutantPartner(id) == Local(id) + 1

Partner(id) == Local(id) + i[id]

(* r = tmp[local] + tmp[local + i]; tmp[local] = r. *)
ReadLow(id) ==
  /\ Goto(id, "readLow", "readHigh")
  /\ r' = [r EXCEPT ![id] = tmp[Tile(id)][Local(id)]]
  /\ UNCHANGED <<i, tmp, b, printed>>

ReadHigh(id) ==
  /\ Goto(id, "readHigh", "write")
  /\ r' = [r EXCEPT ![id] = @ + tmp[Tile(id)][Partner(id)]]
  /\ UNCHANGED <<i, tmp, b, printed>>

Write(id) ==
  /\ Goto(id, "write", "barrier")
  /\ tmp' = [tmp EXCEPT ![Tile(id)][Local(id)] = r[id]]
  /\ UNCHANGED <<i, r, b, printed>>

Output(id) ==
  /\ Goto(id, "output", "done")
  /\ b' = IF Local(id) = 0 THEN [b EXCEPT ![Tile(id)] = tmp[Tile(id)][0]] ELSE b
  /\ UNCHANGED <<i, r, tmp, printed>>

(* Mutant of Synchronized: the host does not wait for the last tile. *)
MutantSynchronized == \A l \in Locals : pc[<<0, l>>] = "done"

Synchronized == \A id \in WorkItems : pc[id] = "done"

(* bb.synchronize(), the sum of the 32 elements of b, and that of a. *)
PrintSums ==
  /\ Synchronized
  /\ printed = <<>>
  /\ printed' = <<SumFunction(b), SumFunction(a)>>
  /\ UNCHANGED <<pc, i, r, tmp, b>>

WorkItem(id) == Load(id) \/ ReadLow(id) \/ ReadHigh(id) \/ Write(id) \/ Output(id)

Next ==
  \/ \E id \in WorkItems : WorkItem(id)
  \/ \E tile \in Tiles : PassBarrier(tile)
  \/ PrintSums

(* Some work-item that can run does, no matter which. *)
Spec == Init /\ [][Next]_vars /\ WF_vars(Next)
------------------------------------------------------------------------------
(* The types of the variables. *)
TypeOK ==
  /\ pc \in [WorkItems -> {"load", "barrier", "readLow", "readHigh", "write", "output", "done"}]
  /\ i \in [WorkItems -> {TileSize} \cup 0 .. TileSize \div 2]
  /\ r \in [WorkItems -> Int]
  /\ tmp \in [Tiles -> [Locals -> Int]]
  /\ b \in [Tiles -> Int]
  /\ printed = <<>> \/ DOMAIN printed = 1 .. 2

(* The elements of tmp that a work-item may read, and write, before it     *)
(* waits at the next barrier.                                              *)
Reads(id) ==
  CASE pc[id] = "readLow"                    -> {Local(id), Partner(id)}
    [] pc[id] = "readHigh"                   -> {Partner(id)}
    [] pc[id] = "output" /\ Local(id) = 0    -> {0}
    [] OTHER                                 -> {}

Writes(id) ==
  IF pc[id] \in {"load", "readLow", "readHigh", "write"} THEN {Local(id)} ELSE {}

(* No two work-items of a tile race for an element of tmp, and none leaves *)
(* the array: between two barriers, what one may write no other may access. *)
NoRace ==
  \A id, jd \in WorkItems :
    /\ Reads(id) \cup Writes(id) \subseteq Locals
    /\ Tile(id) = Tile(jd) /\ id # jd => Writes(id) \cap (Reads(jd) \cup Writes(jd)) = {}

(* No work-item of a tile waits at a barrier that another one of the tile  *)
(* will not reach.                                                         *)
NoDivergence ==
  \A id, jd \in WorkItems :
    Tile(id) = Tile(jd) /\ pc[id] = "barrier" => pc[jd] \notin {"output", "done"}

(* A tile keeps its sum from barrier to barrier: it is in the elements that *)
(* the next round still adds.                                              *)
TileSum(tile) == SumFunction([l \in Locals |-> Input(<<tile, l>>)])

RoundsKeepSum ==
  \A tile \in Tiles :
    LET n == i[<<tile, 0>>] IN
    (\A l \in Locals : pc[<<tile, l>>] = "barrier" /\ i[<<tile, l>>] = n) =>
      SumFunctionOnSet(tmp[tile], {l \in Locals : l < n}) = TileSum(tile)

(* The reduction of the device, however its work-items interleave, is that *)
(* of the host.                                                            *)
ReductionsAgree == printed # <<>> => printed[1] = printed[2]

(* Every work-item reaches every barrier of its tile, so that the program  *)
(* prints a result.                                                        *)
Reduces == <>(printed # <<>>)
==============================================================================
