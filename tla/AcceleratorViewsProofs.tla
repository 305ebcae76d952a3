------------------------ MODULE AcceleratorViewsProofs ------------------------
(***************************************************************************)
(* For arrays of every size and under every order of commands and           *)
(* work-items, on both runtimes: in every program of the repository the     *)
(* work-items of a kernel do not race, and a program whose text orders what *)
(* conflicts has no commands that overlap, no host that races with them,    *)
(* and leaves in memory what its commands do one after the other.           *)
(***************************************************************************)
EXTENDS AcceleratorViews, SequenceTheorems, SetSums

(* Programs and kernels are sequences: their commands have numbers.         *)
Sequence(s) == \E S : s \in Seq(S)

LEMMA Tuples ==
  ASSUME NEW a, NEW b, NEW c, NEW d, NEW e, NEW f, NEW g, NEW h, NEW i, NEW j
  PROVE  /\ Sequence(<<a>>) /\ Sequence(<<a, b>>) /\ Sequence(<<a, b, c>>)
         /\ Sequence(<<a, b, c, d>>) /\ Sequence(<<a, b, c, d, e>>)
         /\ Sequence(<<a, b, c, d, e, f>>) /\ Sequence(<<a, b, c, d, e, f, g>>)
         /\ Sequence(<<a, b, c, d, e, f, g, h, i>>) /\ Sequence(<<a, b, c, d, e, f, g, h, i, j>>)
<1>1. <<a>> \in Seq({a}) /\ <<a, b>> \in Seq({a, b}) /\ <<a, b, c>> \in Seq({a, b, c})
  OBVIOUS
<1>2. <<a, b, c, d>> \in Seq({a, b, c, d}) /\ <<a, b, c, d, e>> \in Seq({a, b, c, d, e})
  OBVIOUS
<1>3. <<a, b, c, d, e, f>> \in Seq({a, b, c, d, e, f})
  OBVIOUS
<1>4. <<a, b, c, d, e, f, g>> \in Seq({a, b, c, d, e, f, g})
  OBVIOUS
<1>5. <<a, b, c, d, e, f, g, h, i>> \in Seq({a, b, c, d, e, f, g, h, i})
  OBVIOUS
<1>6. <<a, b, c, d, e, f, g, h, i, j>> \in Seq({a, b, c, d, e, f, g, h, i, j})
  OBVIOUS
<1> QED
  BY <1>1, <1>2, <1>3, <1>4, <1>5, <1>6, Zenon DEF Sequence

------------------------------------------------------------------------------
(* Kernels whose work-items touch different elements.                      *)

(* Statements by which work-items that differ touch different elements:     *)
(* each touches that of its own number.                                    *)
ByNumber(s) ==
  /\ \A x \in DOMAIN s.at : s.at[x] = x
  /\ \A r \in s.from : r.pointer = "none" /\ \A x \in DOMAIN r.at : r.at[x] = x

(* x by s and y by u touch no common element that one of them writes. *)
Apart(s, u, x, y) ==
  \A m : Written(s, x) \cap Touched(m, u, y) = {} /\ Written(u, y) \cap Touched(m, s, x) = {}

(* With no barrier after the statement i up to the statement j, work-items  *)
(* can be at i and at j at a time.                                         *)
Together(body, i, j) == i <= j /\ \A b \in i + 1 .. j : ~body[b].synced

ItemsApart(body) ==
  \A x, y : x # y =>
    \A i, j \in DOMAIN body : Together(body, i, j) =>
      Apart(body[i], body[j], x, y) \/ (body[i].atomic /\ body[j].atomic)

(* What is used of the commands of a program. *)
Kernel(body) == Sequence(body) /\ ItemsApart(body)
Usable(c)    == /\ c.op \in {"enqueue", "synchronize"} => Kernel(c.body)
                /\ c.op = "host" => Sequence(c.body)
Good(p)      == \E S : p \in Seq(S) /\ \A c \in S : Usable(c)

LEMMA ByNumberApart ==
  ASSUME NEW s, NEW u, ByNumber(s), ByNumber(u), NEW x, NEW y, x # y
  PROVE  Apart(s, u, x, y)
<1> SUFFICES ASSUME NEW m
             PROVE  Written(s, x) \cap Touched(m, u, y) = {} /\ Written(u, y) \cap Touched(m, s, x) = {}
  BY DEF Apart
<1>1. ASSUME NEW q, ByNumber(q), NEW z
      PROVE  /\ \A w \in Written(q, z) : \E v : w = <<v, z>>
             /\ \A w \in Touched(m, q, z) : \E v : w = <<v, z>>
  <2>1. \A w \in Written(q, z) : \E v : w = <<v, z>>
    BY <1>1 DEF Written, ByNumber
  <2>2. ASSUME NEW r \in ReadBy(q, z) PROVE Element(m, r, z) = z
    BY <1>1, <2>2 DEF ReadBy, Element, ByNumber
  <2> QED
    BY <2>1, <2>2, Zenon DEF Touched
<1>2. ASSUME NEW w, \E v : w = <<v, x>>, \E v : w = <<v, y>> PROVE FALSE
  BY <1>2
<1>3. ASSUME NEW w \in Written(s, x), w \in Touched(m, u, y) PROVE FALSE
  <2>1. \E v : w = <<v, x>>
    BY <1>1, <1>3
  <2>2. \E v : w = <<v, y>>
    BY <1>1, <1>3
  <2> QED
    BY <1>2, <2>1, <2>2
<1>4. ASSUME NEW w \in Written(u, y), w \in Touched(m, s, x) PROVE FALSE
  <2>1. \E v : w = <<v, x>>
    BY <1>1, <1>4
  <2>2. \E v : w = <<v, y>>
    BY <1>1, <1>4
  <2> QED
    BY <1>2, <2>1, <2>2
<1> QED
  BY <1>3, <1>4

LEMMA ByNumberKernel ==
  ASSUME NEW body, Sequence(body), \A i \in DOMAIN body : ByNumber(body[i])
  PROVE  Kernel(body)
BY ByNumberApart, Zenon DEF Kernel, ItemsApart

(* The statements of HostPrograms.                                         *)
LEMMA ByNumberStatements ==
  /\ \A to, reads, term : ByNumber(Set(to, reads, term))
  /\ \A to, from : ByNumber(Copy(to, from))
  /\ \A to, value : ByNumber(Scalar(to, value))
  /\ \A f : ByNumber(Output(f))
  /\ \A to, from : ByNumber(InImage(to, from))
<1>1. ASSUME NEW to, NEW reads, NEW term PROVE ByNumber(Set(to, reads, term))
  <2>1. \A r \in Whole(reads) : r.pointer = "none" /\ r.at = Same
    BY DEF Whole, Read
  <2>2. Set(to, reads, term).at = Same /\ Set(to, reads, term).from = Whole(reads)
    BY DEF Set, Assign
  <2> QED
    BY <2>1, <2>2 DEF ByNumber, Same
<1>2. \A to, from : ByNumber(Copy(to, from))
  BY <1>1, Zenon DEF Copy
<1>3. ASSUME NEW to, NEW value PROVE ByNumber(Scalar(to, value))
  BY DEF Scalar, Assign, ByNumber
<1>4. ASSUME NEW f PROVE ByNumber(Output(f))
  BY DEF Output, Assign, ByNumber, Same
<1>5. ASSUME NEW to, NEW from PROVE ByNumber(InImage(to, from))
  BY DEF InImage, Assign, ByNumber, Read
<1> QED
  BY <1>1, <1>2, <1>3, <1>4, <1>5

LEMMA ByNumberModified ==
  ASSUME NEW to, NEW at, NEW reads, NEW term, NEW m
  PROVE  /\ ByNumber(Assign(to, at, reads, term)) => ByNumber(Modulo(Assign(to, at, reads, term), m))
BY DEF ByNumber, Modulo, Assign

LEMMA ByNumberBodies ==
  ASSUME NEW a, NEW b, NEW c, ByNumber(a), ByNumber(b), ByNumber(c)
  PROVE  Kernel(<<a>>) /\ Kernel(<<a, b>>) /\ Kernel(<<a, b, c>>)
<1>1. Sequence(<<a>>) /\ Sequence(<<a, b>>) /\ Sequence(<<a, b, c>>)
  BY Tuples, Zenon
<1>2. \A i \in DOMAIN <<a>> : ByNumber(<<a>>[i])
  <2>1. \A i \in DOMAIN <<a>> : <<a>>[i] = a
    OBVIOUS
  <2> QED
    BY <2>1, Zenon
<1>3. \A i \in DOMAIN <<a, b>> : ByNumber(<<a, b>>[i])
  <2>1. \A i \in DOMAIN <<a, b>> : <<a, b>>[i] = a \/ <<a, b>>[i] = b
    OBVIOUS
  <2> QED
    BY <2>1
<1>4. \A i \in DOMAIN <<a, b, c>> : ByNumber(<<a, b, c>>[i])
  <2>1. \A i \in DOMAIN <<a, b, c>> : <<a, b, c>>[i] = a \/ <<a, b, c>>[i] = b \/ <<a, b, c>>[i] = c
    OBVIOUS
  <2> QED
    BY <2>1
<1> QED
  BY <1>1, <1>2, <1>3, <1>4, ByNumberKernel

(* Commands, and programs of them.                                         *)
LEMMA UsableCommands ==
  /\ \A view, after, body : Kernel(body) => Usable(Barrier(view, after, body))
  /\ \A view, body : Kernel(body) => Usable(Enqueue(view, body))
  /\ \A view, captured, body : Kernel(body) => Usable(Capturing(view, captured, body))
  /\ \A view, captured, body, after :
       Kernel(body) => Usable([Capturing(view, captured, body) EXCEPT !.after = after])
  /\ \A to, from : Usable(Synchronize(to, from))
  /\ \A to, from, body : Kernel(body) => Usable([Synchronize(to, from) EXCEPT !.body = body])
  /\ \A body : Sequence(body) => Usable(HostSet(body))
  /\ \A a, b : Usable(HostSet(<<a>>)) /\ Usable(HostSet(<<a, b>>))
  /\ \A body : Usable(Verify(body))
  /\ \A x : Usable(Free(x)) /\ Usable(Wait(x)) /\ Usable(WaitView(x))
<1>1. \A to, from : Kernel(<<Copy(to, from)>>)
  BY ByNumberStatements, ByNumberBodies, Zenon
<1>2. \A view, after, body : Kernel(body) => Usable(Barrier(view, after, body))
  BY DEF Usable, Barrier
<1>3. \A view, body : Kernel(body) => Usable(Enqueue(view, body))
  BY <1>2, Zenon DEF Enqueue
<1>4. ASSUME NEW view, NEW captured, NEW body, NEW after, Kernel(body)
      PROVE  /\ Usable(Capturing(view, captured, body))
             /\ Usable([Capturing(view, captured, body) EXCEPT !.after = after])
  BY <1>4 DEF Usable, Capturing, Barrier
<1>5. ASSUME NEW to, NEW from, NEW body, Kernel(body)
      PROVE  Usable(Synchronize(to, from)) /\ Usable([Synchronize(to, from) EXCEPT !.body = body])
  <2>1. Synchronize(to, from).body = <<Copy(to, from)>> /\ Synchronize(to, from).op # "host"
    BY DEF Synchronize
  <2>2. /\ [Synchronize(to, from) EXCEPT !.body = body].body = body
        /\ [Synchronize(to, from) EXCEPT !.body = body].op # "host"
    BY DEF Synchronize
  <2> QED
    BY <1>1, <1>5, <2>1, <2>2, Zenon DEF Usable
<1>6. ASSUME NEW to, NEW from PROVE Usable(Synchronize(to, from))
  BY <1>1, <1>5, Zenon
<1>7. /\ \A body : Usable(Verify(body))
      /\ \A body : Sequence(body) => Usable(HostSet(body))
  BY DEF Usable, HostSet, Verify
<1>9. ASSUME NEW a, NEW b PROVE Usable(HostSet(<<a>>)) /\ Usable(HostSet(<<a, b>>))
  <2>1. Sequence(<<a>>) /\ Sequence(<<a, b>>)
    BY Tuples, Zenon
  <2> QED
    BY <1>7, <2>1, Zenon
<1>8. \A x : Usable(Free(x)) /\ Usable(Wait(x)) /\ Usable(WaitView(x))
  BY DEF Usable, Free, Wait, WaitView
<1> QED
  BY <1>2, <1>3, <1>4, <1>5, <1>6, <1>7, <1>8, <1>9

LEMMA GoodConcat ==
  ASSUME NEW s, NEW t, Good(s), Good(t)
  PROVE  Good(s \o t)
<1>1. PICK S : s \in Seq(S) /\ \A c \in S : Usable(c)
  BY DEF Good
<1>2. PICK T : t \in Seq(T) /\ \A c \in T : Usable(c)
  BY DEF Good
<1>3. s \in Seq(S \cup T) /\ t \in Seq(S \cup T)
  BY <1>1, <1>2
<1>4. s \o t \in Seq(S \cup T)
  BY <1>3, ConcatProperties
<1>5. \A c \in S \cup T : Usable(c)
  BY <1>1, <1>2
<1> QED
  BY <1>4, <1>5 DEF Good

LEMMA GoodTuples ==
  ASSUME NEW a, NEW b, NEW c, NEW d, NEW e, Usable(a), Usable(b), Usable(c), Usable(d), Usable(e)
  PROVE  /\ Good(<<a>>) /\ Good(<<a, b>>) /\ Good(<<a, b, c>>)
         /\ Good(<<a, b, c, d>>) /\ Good(<<a, b, c, d, e>>)
<1> DEFINE All == {a, b, c, d, e}
<1>1. <<a>> \in Seq(All) /\ <<a, b>> \in Seq(All) /\ <<a, b, c>> \in Seq(All)
  OBVIOUS
<1>2. <<a, b, c, d>> \in Seq(All) /\ <<a, b, c, d, e>> \in Seq(All)
  OBVIOUS
<1>3. \A x \in All : Usable(x)
  OBVIOUS
<1> HIDE DEF All
<1> QED
  BY <1>1, <1>2, <1>3, Zenon DEF Good

LEMMA GoodLongTuples ==
  ASSUME NEW a, NEW b, NEW c, NEW d, NEW e, NEW f, NEW g, NEW h, NEW i, NEW j,
         Usable(a), Usable(b), Usable(c), Usable(d), Usable(e), Usable(f), Usable(g), Usable(h),
         Usable(i), Usable(j)
  PROVE  /\ Good(<<a, b, c, d, e, f>>) /\ Good(<<a, b, c, d, e, f, g>>)
         /\ Good(<<a, b, c, d, e, f, g, h, i>>) /\ Good(<<a, b, c, d, e, f, g, h, i, j>>)
<1> DEFINE All == {a, b, c, d, e, f, g, h, i, j}
<1>1. <<a, b, c, d, e, f>> \in Seq(All)
  OBVIOUS
<1>2. <<a, b, c, d, e, f, g>> \in Seq(All)
  OBVIOUS
<1>3. <<a, b, c, d, e, f, g, h, i>> \in Seq(All)
  OBVIOUS
<1>4. <<a, b, c, d, e, f, g, h, i, j>> \in Seq(All)
  OBVIOUS
<1>5. \A x \in All : Usable(x)
  OBVIOUS
<1> HIDE DEF All
<1> QED
  BY <1>1, <1>2, <1>3, <1>4, <1>5, Zenon DEF Good
------------------------------------------------------------------------------
(* The programs of HostPrograms, whose work-items touch their own elements. *)
LEMMA ByNumberKernels ==
  /\ Kernel(AddTo) /\ \A v : Kernel(Increment(v))
  /\ \A to, value : Kernel(<<Scalar(to, value)>>)
  /\ \A to, reads, term : Kernel(<<Set(to, reads, term)>>)
  /\ \A to, from : Kernel(<<Copy(to, from)>>)
  /\ \A flag : Kernel(AddVectors \o <<Scalar(flag, 1)>>)
  /\ \A call, put, input : Kernel(BlackScholes(call, put, input))
  /\ \A c, a, b, from, with : Kernel(ViewSum(c, a, b, from, with))
  /\ Kernel(<<Copy("aa", "a"), Set("aa", {"aa"}, 1)>>)
  /\ \A to, from : Kernel(<<InImage(to, from)>>)
<1>1. Kernel(AddTo) /\ (\A v : Kernel(Increment(v))) /\ \A to, reads, term : Kernel(<<Set(to, reads, term)>>)
  BY ByNumberStatements, ByNumberBodies, Zenon DEF AddTo, Increment
<1>2. \A to, value : Kernel(<<Scalar(to, value)>>)
  BY ByNumberStatements, ByNumberBodies, Zenon
<1>3. \A to, from : Kernel(<<Copy(to, from)>>) /\ Kernel(<<InImage(to, from)>>)
  BY ByNumberStatements, ByNumberBodies, Zenon
<1>4. ASSUME NEW flag PROVE Kernel(AddVectors \o <<Scalar(flag, 1)>>)
  <2> DEFINE a == Set("a", {"b", "c"}, 0)
             b == Scalar(flag, 1)
  <2>1. ByNumber(a) /\ ByNumber(b)
    BY ByNumberStatements
  <2>2. AddVectors = <<a>>
    BY DEF AddVectors
  <2> HIDE DEF a, b
  <2>3. <<a>> \in Seq({a, b}) /\ <<b>> \in Seq({a, b})
    OBVIOUS
  <2>4. AddVectors \o <<b>> \in Seq({a, b})
    BY <2>2, <2>3, ConcatProperties
  <2>5. Sequence(AddVectors \o <<b>>)
    BY <2>4, Zenon DEF Sequence
  <2>6. \A n \in DOMAIN (AddVectors \o <<b>>) : (AddVectors \o <<b>>)[n] \in {a, b}
    <3> DEFINE s == AddVectors \o <<b>>
    <3>1. s \in Seq({a, b})
      BY <2>4
    <3> HIDE DEF s
    <3>2. \A n \in DOMAIN s : s[n] \in {a, b}
      BY <3>1
    <3> QED
      BY <3>2 DEF s
  <2>7. Kernel(AddVectors \o <<b>>)
    BY <2>1, <2>5, <2>6, ByNumberKernel
  <2> QED
    BY <2>7 DEF b
<1>5. \A call, put, input : Kernel(BlackScholes(call, put, input))
  BY ByNumberStatements, ByNumberBodies, Zenon DEF BlackScholes
<1>6. ASSUME NEW c, NEW a, NEW b, NEW from, NEW with PROVE Kernel(ViewSum(c, a, b, from, with))
  BY ByNumberStatements, ByNumberBodies, Zenon DEF ViewSum
<1>7. Kernel(<<Copy("aa", "a"), Set("aa", {"aa"}, 1)>>)
  BY ByNumberStatements, ByNumberBodies, Zenon
<1> QED
  BY <1>1, <1>2, <1>3, <1>4, <1>5, <1>6, <1>7, Zenon

LEMMA AsyncGood ==
  /\ Good(single_view_inorder) /\ Good(multiple_view_inorder)
  /\ Good(single_view_outoforder) /\ Good(single_view_outoforder_independent_kernels)
  /\ Good(multiple_view_inorder_with_copy) /\ Good(single_view_out_of_order_with_copy)
  /\ Good(pitfall_race_condition) /\ Good(pitfall_race_condition_2)
<1>1. Good(single_view_inorder) /\ Good(multiple_view_inorder)
  BY ByNumberKernels, UsableCommands, GoodTuples, Zenon DEF single_view_inorder, multiple_view_inorder
<1>2. Good(single_view_outoforder) /\ Good(single_view_outoforder_independent_kernels)
  BY ByNumberKernels, UsableCommands, GoodTuples, Zenon
  DEF single_view_outoforder, single_view_outoforder_independent_kernels
<1>3. Good(multiple_view_inorder_with_copy) /\ Good(single_view_out_of_order_with_copy)
  BY ByNumberKernels, UsableCommands, GoodTuples, Zenon
  DEF multiple_view_inorder_with_copy, single_view_out_of_order_with_copy
<1>4. Good(pitfall_race_condition)
  BY ByNumberKernels, UsableCommands, GoodTuples, Zenon DEF pitfall_race_condition
<1>5. Good(pitfall_race_condition_2)
  BY ByNumberKernels, UsableCommands, GoodTuples, ZenonT(30) DEF pitfall_race_condition_2
<1> QED
  BY <1>1, <1>2, <1>3, <1>4, <1>5

LEMMA LinkGood == Good(compile_link)
<1>1. ASSUME NEW flag, NEW k PROVE Good(FlaggedKernel(flag, k))
  <2> DEFINE body   == AddVectors \o <<Scalar(flag, 1)>>
             kernel == Enqueue("default", body)
             copy   == Synchronize("flag", flag)
             wait   == Wait({k + 1})
             verify == Verify(AddVectors)
  <2>1. Usable(kernel) /\ Usable(copy) /\ Usable(wait) /\ Usable(verify)
    <3>1. Kernel(body)
      BY ByNumberKernels
    <3> HIDE DEF body
    <3> QED
      BY <3>1, UsableCommands
  <2>2. FlaggedKernel(flag, k) = <<kernel, copy, wait, verify>>
    BY DEF FlaggedKernel
  <2> HIDE DEF kernel, copy, wait, verify
  <2> QED
    BY <2>1, <2>2, GoodTuples
<1>2. \A s, a : Good(<<HostSet(<<s>>)>>) /\ Good(<<Free(a)>>)
  BY UsableCommands, GoodTuples, Zenon
<1>3. \A to, from, k : Good(<<Synchronize(to, from), Wait(k)>>)
  BY UsableCommands, GoodTuples, Zenon
<1> DEFINE p1 == FlaggedKernel("flag_v", 1) \o <<HostSet(<<Set("a", {}, 0)>>)>>
           p2 == p1 \o FlaggedKernel("lib_flag_v", 6)
           p3 == p2 \o <<Synchronize("flag", "flag_v"), Wait({10})>>
           p4 == p3 \o FlaggedKernel("flag_v", 12)
<1>4. Good(p1)
  BY <1>1, <1>2, GoodConcat, Zenon
<1>5. Good(p2)
  <2> HIDE DEF p1
  <2> QED  BY <1>1, <1>4, GoodConcat, Zenon
<1>6. Good(p3)
  <2> HIDE DEF p2
  <2> QED  BY <1>3, <1>5, GoodConcat, Zenon
<1>7. Good(p4)
  <2> HIDE DEF p3
  <2> QED  BY <1>1, <1>6, GoodConcat, Zenon
<1>8. compile_link = p4 \o <<Free({"a", "b", "c"})>>
  BY Zenon DEF compile_link
<1> HIDE DEF p4
<1> QED
  BY <1>2, <1>7, <1>8, GoodConcat, Zenon

LEMMA BlackScholesGood ==
  /\ Good(runBlackScholesArrayView) /\ Good(runBlackScholesArray)
  /\ Good(runBlackScholesSVM) /\ Good(runBlackScholesZeroCopy)
  /\ Good(runBlackScholesBufferCopy)
<1>1. Good(zeroArrays)
  BY ByNumberKernels, UsableCommands, GoodLongTuples, Zenon DEF zeroArrays
<1>2. \A s : Good(s) => Good(zeroArrays \o s)
  BY <1>1, GoodConcat, Zenon
<1>3. Usable(VerifyBlackScholes)
  BY UsableCommands, Zenon DEF VerifyBlackScholes
<1>4. Good(runBlackScholesArrayView)
  BY <1>2, <1>3, ByNumberKernels, UsableCommands, GoodLongTuples, Zenon DEF runBlackScholesArrayView
<1>5. Good(runBlackScholesSVM)
  BY <1>2, <1>3, ByNumberKernels, UsableCommands, GoodTuples, Zenon DEF runBlackScholesSVM
<1>6. Good(runBlackScholesArray)
  BY <1>2, <1>3, ByNumberKernels, UsableCommands, GoodLongTuples, Zenon DEF runBlackScholesArray
<1>7. Good(runBlackScholesZeroCopy)
  BY <1>3, ByNumberKernels, UsableCommands, GoodTuples, Zenon DEF runBlackScholesZeroCopy
<1>8. Good(runBlackScholesBufferCopy)
  BY <1>3, ByNumberKernels, UsableCommands, GoodLongTuples, Zenon DEF runBlackScholesBufferCopy
<1> QED
  BY <1>4, <1>5, <1>6, <1>7, <1>8

LEMMA ViewsGood ==
  /\ Good(vectoradd) /\ Good(vectoradd_arrayview) /\ Good(vectoradd_boltzmann)
  /\ Good(copytest) /\ Good(add) /\ Good(add_array) /\ Good(am_alloc)
  /\ Good(array_view_diagnostics)
<1>1. \A c, a, b : Usable(IsSum(c, a, b))
  BY UsableCommands, Zenon DEF IsSum
<1>2. Good(vectoradd)
  BY <1>1, ByNumberKernels, UsableCommands, GoodTuples, Zenon DEF vectoradd
<1>3. Good(vectoradd_arrayview)
  BY <1>1, ByNumberKernels, UsableCommands, GoodTuples, Zenon DEF vectoradd_arrayview
<1>4. Good(vectoradd_boltzmann)
  BY <1>1, ByNumberKernels, UsableCommands, GoodLongTuples, Zenon DEF vectoradd_boltzmann
<1>5. Good(copytest)
  BY ByNumberKernels, UsableCommands, GoodLongTuples, Zenon DEF copytest
<1>6. Good(add)
  BY <1>1, ByNumberKernels, UsableCommands, GoodLongTuples, Zenon DEF add
<1>7. Good(add_array)
  BY <1>1, ByNumberKernels, UsableCommands, GoodLongTuples, Zenon DEF add_array
<1>8. Good(am_alloc)
  BY ByNumberKernels, UsableCommands, GoodTuples, Zenon DEF am_alloc
<1>9. Good(array_view_diagnostics)
  <2>1. ASSUME NEW k PROVE Good(Incremented(k))
    <3> DEFINE a == HostSet(<<Set("a", {}, 0)>>)
               b == Enqueue("default", <<Copy("aa", "a"), Set("aa", {"aa"}, 1)>>)
               c == Synchronize("a", "aa")
               d == Wait({k + 2})
               e == Free({"aa"})
               f == Verify(<<Set("a", {}, 1)>>)
    <3>1. Usable(a) /\ Usable(b) /\ Usable(c) /\ Usable(d) /\ Usable(e) /\ Usable(f)
      BY ByNumberKernels, UsableCommands
    <3>2. Incremented(k) = <<a, b, c, d, e, f>>
      BY DEF Incremented
    <3> HIDE DEF a, b, c, d, e, f
    <3> QED
      BY <3>1, <3>2, GoodLongTuples
  <2> QED
    BY <2>1, GoodConcat, Zenon DEF array_view_diagnostics
<1> QED
  BY <1>2, <1>3, <1>4, <1>5, <1>6, <1>7, <1>8, <1>9

(* Every work-item adds to one variable, atomically. *)
LEMMA AtomicKernel == \A to, from : Kernel(<<fetch_add(to, from)>>)
<1> SUFFICES ASSUME NEW to, NEW from PROVE Kernel(<<fetch_add(to, from)>>)
  OBVIOUS
<1> DEFINE s == fetch_add(to, from)
<1>1. s.atomic
  BY DEF fetch_add, Assign
<1> HIDE DEF s
<1>2. \A i \in DOMAIN <<s>> : <<s>>[i] = s
  OBVIOUS
<1>3. ItemsApart(<<s>>)
  BY <1>1, <1>2, Zenon DEF ItemsApart
<1>4. Sequence(<<s>>)
  BY Tuples, Zenon
<1> QED
  BY <1>3, <1>4 DEF Kernel, s

LEMMA RawGood ==
  /\ Good(static_array) /\ Good(test_forall) /\ Good(runTypeTest(4))
  /\ Good(runTypeTest(0)) /\ Good(runBoolTest) /\ Good(test_goto)
  /\ Good(test_recursive_function) /\ Good(test_bitfield(1)) /\ Good(test_static_member)
<1>1. ASSUME NEW s, ByNumber(s) PROVE Good(RawKernel(s))
  BY <1>1, ByNumberBodies, UsableCommands, GoodTuples, Zenon DEF RawKernel
<1>2. Good(static_array) /\ Good(test_forall)
  BY <1>1, ByNumberStatements, Zenon DEF static_array, test_forall
<1>3. ASSUME NEW m PROVE Good(runTypeTest(m))
  BY <1>1, ByNumberStatements, ByNumberModified, Zenon DEF runTypeTest, Set
<1>4. Good(runBoolTest)
  <2>1. \A f : Good(RawKernel(Output(f)))
    BY <1>1, ByNumberStatements, Zenon
  <2> QED
    BY <2>1, Zenon DEF runBoolTest
<1>5. Good(test_goto)
  <2>1. \A f : Good(RawKernel(Output(f)))
    BY <1>1, ByNumberStatements, Zenon
  <2> QED
    BY <2>1, Zenon DEF test_goto
<1>6. Good(test_recursive_function)
  <2>1. \A f : Good(RawKernel(Output(f)))
    BY <1>1, ByNumberStatements, Zenon
  <2> QED
    BY <2>1, Zenon DEF test_recursive_function
<1>7. ASSUME NEW b PROVE Good(test_bitfield(b))
  BY <1>1, ByNumberStatements, ByNumberModified, Zenon DEF test_bitfield, Output
<1>8. Good(test_static_member)
  BY AtomicKernel, UsableCommands, GoodTuples, Zenon DEF test_static_member
<1> QED
  BY <1>2, <1>3, <1>4, <1>5, <1>6, <1>7, <1>8
------------------------------------------------------------------------------
(* The kernels whose work-items read what others have written.             *)

(* Two work-items write different elements, and read other arrays. *)
LEMMA OtherElements ==
  ASSUME NEW s, NEW u, NEW x, NEW y, s.to = u.to,
         \A r \in s.from : r.array # s.to, \A r \in u.from : r.array # s.to,
         x \in DOMAIN s.at /\ y \in DOMAIN u.at => s.at[x] # u.at[y]
  PROVE  Apart(s, u, x, y)
<1>1. ASSUME NEW m, NEW q, NEW z
      PROVE  /\ \A v \in Written(q, z) : z \in DOMAIN q.at /\ v = <<q.to, q.at[z]>>
             /\ \A v \in Touched(m, q, z) : \/ z \in DOMAIN q.at /\ v = <<q.to, q.at[z]>>
                                            \/ \E r \in q.from : \E e : v = <<r.array, e>>
  <2>1. \A v \in Written(q, z) : z \in DOMAIN q.at /\ v = <<q.to, q.at[z]>>
    BY DEF Written
  <2> QED
    BY <2>1, Zenon DEF Touched, ReadBy
<1>2. ASSUME NEW v, NEW p, NEW q, NEW z, NEW w, p.to = q.to, p.at[z] # q.at[w],
             v = <<p.to, p.at[z]>>, v = <<q.to, q.at[w]>>
      PROVE  FALSE
  BY <1>2
<1>3. ASSUME NEW v, NEW p, NEW q, NEW z, \A r \in q.from : r.array # p.to,
             v = <<p.to, p.at[z]>>, \E r \in q.from : \E e : v = <<r.array, e>>
      PROVE  FALSE
  BY <1>3
<1>4. ASSUME NEW m, NEW v \in Written(s, x), v \in Touched(m, u, y) PROVE FALSE
  <2>1. x \in DOMAIN s.at /\ v = <<s.to, s.at[x]>>
    BY <1>1
  <2>2. \/ y \in DOMAIN u.at /\ v = <<u.to, u.at[y]>>
        \/ \E r \in u.from : \E e : v = <<r.array, e>>
    BY <1>1, <1>4
  <2> QED
    BY <1>2, <1>3, <2>1, <2>2
<1>5. ASSUME NEW m, NEW v \in Written(u, y), v \in Touched(m, s, x) PROVE FALSE
  <2>1. y \in DOMAIN u.at /\ v = <<u.to, u.at[y]>>
    BY <1>1
  <2>2. \/ x \in DOMAIN s.at /\ v = <<s.to, s.at[x]>>
        \/ \E r \in s.from : \E e : v = <<r.array, e>>
    BY <1>1, <1>5
  <2> QED
    BY <1>2, <1>3, <2>1, <2>2
<1> QED
  BY <1>4, <1>5 DEF Apart

(* Each work-item writes its own element, and reads other arrays. *)
LEMMA OwnElement ==
  ASSUME NEW s, \A x \in DOMAIN s.at : s.at[x] = x, \A r \in s.from : r.array # s.to,
         NEW x, NEW y, x # y
  PROVE  Apart(s, s, x, y)
BY OtherElements

(* Only one of them executes a statement. *)
LEMMA OneExecutes ==
  ASSUME NEW s, NEW u, NEW x, NEW y, x \notin DOMAIN s.at \/ y \notin DOMAIN u.at
  PROVE  Apart(s, u, x, y)
<1>1. \A q, z, m : z \notin DOMAIN q.at => Written(q, z) = {} /\ Touched(m, q, z) = {}
  BY DEF Written, Touched
<1> QED
  BY <1>1 DEF Apart

LEMMA ConvolutionKernel == Kernel(<<convolve_gpu>>)
<1> DEFINE s == convolve_gpu
<1>1. s.to = "output_view" /\ (\A x \in DOMAIN s.at : s.at[x] = x) /\ \A r \in s.from : r.array = "input_view"
  <2>1. \A v, at, n, m : Weighted(v, at, n, m).array = v /\ Read(v, at).array = v
    BY DEF Weighted, Read
  <2>2. ASSUME NEW to, NEW from, NEW element, NEW r \in Convolved(to, from, element).from
        PROVE  r.array = from
    <3>1. \/ \E t \in Taps : r = Weighted(from, element[t], t[1], t[2])
          \/ \E at : r = Read(from, at)
      BY <2>2, Zenon DEF Convolved, Assign
    <3>2. CASE \E t \in Taps : r = Weighted(from, element[t], t[1], t[2])
      BY <2>1, <3>2
    <3>3. CASE \E at : r = Read(from, at)
      BY <2>1, <3>3
    <3> QED
      BY <3>1, <3>2, <3>3
  <2>3. ASSUME NEW to, NEW from, NEW element
        PROVE  /\ Convolved(to, from, element).to = to
               /\ Convolved(to, from, element).at = [p \in Image |-> p]
    BY DEF Convolved, Assign
  <2>4. s.to = "output_view" /\ s.at = [p \in Image |-> p] /\ \A r \in s.from : r.array = "input_view"
    <3>1. PICK element : s = Convolved("output_view", "input_view", element)
      BY Zenon DEF convolve_gpu
    <3> HIDE DEF s
    <3> QED
      BY <2>2, <2>3, <3>1
  <2> HIDE DEF s
  <2> QED
    BY <2>4
<1> HIDE DEF s
<1>2. \A x, y : x # y => Apart(s, s, x, y)
  <2>1. \A r \in s.from : r.array # s.to
    BY <1>1
  <2> QED
    BY <1>1, <2>1, OwnElement
<1>3. \A i \in DOMAIN <<s>> : <<s>>[i] = s
  OBVIOUS
<1>4. ItemsApart(<<s>>)
  BY <1>2, <1>3, Zenon DEF ItemsApart
<1>5. Sequence(<<s>>)
  BY Tuples, Zenon
<1> QED
  BY <1>4, <1>5 DEF Kernel, s

LEMMA GroupKernel ==
  Kernel(<<Copy("av_a", "a"), Copy("av_b", "b"), Copy("ts_s", "av_a"), Synced(Copy("dyn_ts_s", "av_b")),
           Synced(Assign("av_c", Same, {Shifted("ts_s", 1), Shifted("dyn_ts_s", 2)},
                         [x \in Indices |-> 0]))>>)
<1> DEFINE a == Copy("av_a", "a")
           b == Copy("av_b", "b")
           c == Copy("ts_s", "av_a")
           d == Synced(Copy("dyn_ts_s", "av_b"))
           e == Synced(Assign("av_c", Same, {Shifted("ts_s", 1), Shifted("dyn_ts_s", 2)},
                              [x \in Indices |-> 0]))
           body == <<a, b, c, d, e>>
<1>1. ByNumber(a) /\ ByNumber(b) /\ ByNumber(c)
  BY ByNumberStatements
<1>2. ByNumber(d)
  <2>1. ByNumber(Copy("dyn_ts_s", "av_b"))
    BY ByNumberStatements
  <2>2. \A s : Synced(s).at = s.at
    BY DEF Synced
  <2> QED
    BY <2>1 DEF Copy, Set, Assign, Synced, ByNumber
<1>3. e.synced /\ e.to = "av_c" /\ (\A x \in DOMAIN e.at : e.at[x] = x) /\ \A r \in e.from : r.array # e.to
  BY DEF Synced, Assign, Shifted, Read, Same
<1> HIDE DEF a, b, c, d, e
<1>4. DOMAIN body = 1 .. 5 /\ body[1] = a /\ body[2] = b /\ body[3] = c /\ body[4] = d /\ body[5] = e
  OBVIOUS
<1> HIDE DEF body
<1>5. \A i \in 1 .. 4 : ByNumber(body[i])
  BY <1>1, <1>2, <1>4
<1>6. ASSUME NEW x, NEW y, x # y, NEW i \in DOMAIN body, NEW j \in DOMAIN body, Together(body, i, j)
      PROVE  Apart(body[i], body[j], x, y)
  <2>1. i \in 1 .. 5 /\ j \in 1 .. 5 /\ i <= j /\ \A n \in i + 1 .. j : ~body[n].synced
    BY <1>4, <1>6 DEF Together
  <2>2. CASE i = 5
    <3>1. body[i] = e /\ body[j] = e
      BY <1>4, <2>1, <2>2
    <3> QED
      BY <1>3, <1>6, <3>1, OwnElement
  <2>3. CASE i # 5
    <3>1. j # 5
      BY <1>3, <1>4, <2>1, <2>3
    <3> QED
      BY <1>5, <1>6, <2>1, <2>3, <3>1, ByNumberApart
  <2> QED
    BY <2>2, <2>3
<1>7. Sequence(body)
  BY Tuples, Zenon DEF body
<1>8. Kernel(body)
  BY <1>6, <1>7, Zenon DEF Kernel, ItemsApart
<1> QED
  BY <1>8 DEF body, a, b, c, d, e

(* Two work-items with a barrier outside the branches that one of them takes. *)
LEMMA BarrierGood == Good(barrier_bug)
<1> DEFINE Pair(f) == [x \in {0, 1} |-> f[x + 1]]
           One(x, e) == [y \in {x} |-> e]
           a == Assign("t", Pair(<<0, 1>>), {}, Pair(<<0, 1>>))
           b == Synced(Assign("t", One(0, 0), {}, One(0, 123)))
           c == Assign("t", One(0, 1), {}, One(0, 321))
           d == Synced(Assign("val", Pair(<<0, 1>>), {Read("t", One(1, 1))}, Pair(<<456, 0>>)))
           e == Synced(Assign("av_data", Pair(<<0, 1>>), {Read("val", Pair(<<0, 1>>))}, Pair(<<0, 0>>)))
           body == <<a, b, c, d, e>>
           kernel == Enqueue("default", body)
           copy == Synchronize("output", "av_data")
           wait == Wait({2})
<1>1. \A x \in {0, 1} : Pair(<<0, 1>>)[x] = x
  OBVIOUS
<1>2. (\A x \in DOMAIN a.at : a.at[x] = x) /\ \A r \in a.from : r.array # a.to
  BY <1>1 DEF Assign
<1>3. (\A x \in DOMAIN d.at : d.at[x] = x) /\ (\A r \in d.from : r.array # d.to) /\ d.synced
  BY <1>1 DEF Assign, Synced, Read
<1>4. (\A x \in DOMAIN e.at : e.at[x] = x) /\ (\A r \in e.from : r.array # e.to) /\ e.synced
  BY <1>1 DEF Assign, Synced, Read
<1>5. DOMAIN b.at = {0} /\ DOMAIN c.at = {0} /\ b.synced
  BY DEF Assign, Synced
<1>6. barrier_bug = <<kernel, copy, wait>>
  BY Zenon DEF barrier_bug
<1> HIDE DEF a, b, c, d, e
<1>7. DOMAIN body = 1 .. 5 /\ body[1] = a /\ body[2] = b /\ body[3] = c /\ body[4] = d /\ body[5] = e
  OBVIOUS
<1> HIDE DEF body
<1>8. ASSUME NEW x, NEW y, x # y, NEW i \in DOMAIN body, NEW j \in DOMAIN body, Together(body, i, j)
      PROVE  Apart(body[i], body[j], x, y)
  <2>1. i \in 1 .. 5 /\ j \in 1 .. 5 /\ i <= j /\ \A n \in i + 1 .. j : ~body[n].synced
    BY <1>7, <1>8 DEF Together
  <2>2. i = j \/ (i = 2 /\ j = 3)
    <3>1. body[2].synced /\ body[4].synced /\ body[5].synced
      BY <1>3, <1>4, <1>5, <1>7
    <3> QED
      BY <2>1, <3>1
  <2>3. CASE i \in {2, 3} /\ j \in {2, 3}
    <3>1. DOMAIN body[i].at = {0} /\ DOMAIN body[j].at = {0}
      BY <1>5, <1>7, <2>3
    <3>2. x \notin DOMAIN body[i].at \/ y \notin DOMAIN body[j].at
      BY <1>8, <3>1
    <3> QED
      BY <3>2, OneExecutes
  <2>4. CASE i = j /\ i \in {1, 4, 5}
    <3> DEFINE s == body[i]
    <3>1. (\A z \in DOMAIN s.at : s.at[z] = z) /\ \A r \in s.from : r.array # s.to
      BY <1>2, <1>3, <1>4, <1>7, <2>4
    <3>2. s = body[j]
      BY <2>4
    <3> HIDE DEF s
    <3>3. Apart(s, s, x, y)
      BY <1>8, <3>1, OwnElement
    <3> QED
      BY <3>2, <3>3 DEF s
  <2> QED
    BY <2>1, <2>2, <2>3, <2>4
<1>9. Sequence(body)
  BY Tuples, Zenon DEF body
<1>10. Kernel(body)
  BY <1>8, <1>9, Zenon DEF Kernel, ItemsApart
<1>11. Usable(kernel) /\ Usable(copy) /\ Usable(wait)
  BY <1>10, UsableCommands, Zenon
<1> HIDE DEF kernel, copy, wait
<1> QED
  BY <1>6, <1>11, GoodTuples, Zenon

(* One work-item runs through the list. *)
LEMMA ListKernels ==
  ASSUME NEW l, NEW sum
  PROVE  Kernel(list_insert_new \o Walk(l, sum))
<1> DEFINE a == list_insert_new[1]
           b == list_insert_new[2]
           c == list_insert_new[3]
           d == Walk(l, sum)[1]
           e == Walk(l, sum)[2]
           All == {a, b, c, d, e}
           visit == Walk(l, sum)
           body == list_insert_new \o visit
<1>1. ASSUME NEW v, NEW w, NEW reads, NEW term PROVE DOMAIN Assign(v, On(v, w), reads, term).at = {0}
  BY DEF Assign, On
<1>2. ASSUME NEW to, NEW w, NEW read PROVE DOMAIN Point(to, w, read).at = {0}
  BY <1>1, Zenon DEF Point
<1>3. DOMAIN a.at = {0} /\ DOMAIN b.at = {0} /\ DOMAIN c.at = {0} /\ list_insert_new = <<a, b, c>>
  <2> DEFINE p == Point("next", newitem, {Read("next", On("next", Nodes - 1))})
             q == Assign("next", On("next", Nodes - 1), {}, On("next", newitem))
             r == Value10("info")
  <2>1. DOMAIN p.at = {0}
    BY <1>2
  <2>2. DOMAIN q.at = {0}
    BY <1>1
  <2>3. DOMAIN r.at = {0}
    BY <1>1, Zenon DEF Value10
  <2>4. list_insert_new = <<p, q, r>>
    BY Zenon DEF list_insert_new
  <2> HIDE DEF p, q, r
  <2> QED
    BY <2>1, <2>2, <2>3, <2>4
<1>4. DOMAIN d.at = {0} /\ DOMAIN e.at = {0} /\ visit = [n \in 1 .. 8 |-> IF n % 2 = 1 THEN d ELSE e]
  <2> DEFINE p == Point(sum, 0, {Read(sum, On(sum, 0)), Through("info", l, On(l, 0))})
             q == Point(l, 0, {Through("next", l, On(l, 0))})
  <2>1. DOMAIN p.at = {0} /\ DOMAIN q.at = {0}
    BY <1>2
  <2>2. visit = [n \in 1 .. 2 * (Nodes + 1) |-> IF n % 2 = 1 THEN p ELSE q]
    BY Zenon DEF Walk
  <2> HIDE DEF p, q, visit
  <2>3. visit = [n \in 1 .. 8 |-> IF n % 2 = 1 THEN p ELSE q]
    BY <2>2 DEF Nodes
  <2>4. visit[1] = p /\ visit[2] = q
    BY <2>3
  <2> QED
    BY <2>1, <2>3, <2>4 DEF visit
<1>5. list_insert_new \in Seq(All)
  <2> HIDE DEF a, b, c, d, e
  <2> QED
    BY <1>3
<1>6. visit \in Seq(All)
  <2> HIDE DEF a, b, c, d, e, visit
  <2>1. \A n \in 1 .. 8 : visit[n] \in All
    BY <1>4
  <2>2. DOMAIN visit = 1 .. 8 /\ visit = [n \in 1 .. 8 |-> visit[n]]
    BY <1>4
  <2> HIDE DEF All
  <2>3. visit \in [1 .. 8 -> All]
    BY <2>1, <2>2
  <2>4. \A n \in Nat : visit \in [1 .. n -> All] => visit \in Seq(All)
    BY SeqDef, Zenon
  <2>5. 8 \in Nat
    OBVIOUS
  <2> QED
    BY <2>3, <2>4, <2>5, Zenon
<1> HIDE DEF visit, All
<1>7. body \in Seq(All)
  BY <1>5, <1>6, ConcatProperties
<1> HIDE DEF body
<1>8. \A i \in DOMAIN body : body[i] \in All
  BY <1>7
<1>9. ASSUME NEW s \in All PROVE DOMAIN s.at = {0}
  <2> HIDE DEF a, b, c, d, e
  <2> QED
    BY <1>3, <1>4 DEF All
<1> HIDE DEF a, b, c, d, e
<1>10. ASSUME NEW x, NEW y, x # y, NEW i \in DOMAIN body, NEW j \in DOMAIN body
       PROVE  Apart(body[i], body[j], x, y)
  <2>1. DOMAIN body[i].at = {0} /\ DOMAIN body[j].at = {0}
    BY <1>8, <1>9
  <2>2. x \notin DOMAIN body[i].at \/ y \notin DOMAIN body[j].at
    BY <1>10, <2>1
  <2> QED
    BY <2>2, OneExecutes
<1>11. ItemsApart(body)
  BY <1>10, Zenon DEF ItemsApart
<1>12. Sequence(body)
  BY <1>7, Zenon DEF Sequence
<1> QED
  BY <1>11, <1>12 DEF Kernel, body, visit

(* The rounds of the benchmark: no two work-items write an element, in any  *)
(* two rounds, and none reads what another writes.                         *)
LEMMA BenchKernel ==
  ASSUME NEW size \in Nat
  PROVE  Kernel(for_loop(size))
<1> DEFINE Threads == 0 .. global_threads - 1
           Place(n, t) == t + n * global_threads * Side
           Rounds == {n \in 0 .. size : Place(n, 0) < size}
           D(n) == {t \in Threads : Place(n, t) < size}
           Round(n) == Assign("av_b", [t \in D(n) |-> Place(n, t)],
                              Column("av_a", [t \in D(n) |-> Top(t)]),
                              [t \in D(n) |-> 0])
           body == for_loop(size)
<1>1. body = [n \in 1 .. Cardinality(Rounds) |-> Round(n - 1)]
  BY Zenon DEF for_loop
<1>2. Cardinality(Rounds) \in Nat
  <2>1. IsFiniteSet(0 .. size)
    BY FS_Interval
  <2>2. IsFiniteSet(Rounds)
    BY <2>1, FS_Subset
  <2> QED
    BY <2>2, FS_CardinalityType
<1>3. ASSUME NEW n
      PROVE  /\ Round(n).to = "av_b" /\ Round(n).at = [t \in D(n) |-> Place(n, t)]
             /\ \A r \in Round(n).from : r.array = "av_a"
  <2>1. \A v, first : \A r \in Column(v, first) : r.array = v
    <3>1. \A v, at : Read(v, at).array = v
      BY DEF Read
    <3> QED
      BY <3>1, Zenon DEF Column
  <2>2. ASSUME NEW to, NEW at, NEW v, NEW first, NEW term
        PROVE  LET s == Assign(to, at, Column(v, first), term)
               IN  s.to = to /\ s.at = at /\ \A r \in s.from : r.array = v
    BY <2>1 DEF Assign
  <2> QED
    BY <2>2
<1>4. ASSUME NEW n \in Nat, NEW t \in D(n) PROVE t \in 0 .. 3 /\ Place(n, t) = t + 8 * n
  BY DEF global_threads, Side
<1> HIDE DEF Place, D, Rounds
<1>5. ASSUME NEW n \in Nat, NEW k \in Nat, NEW x, NEW y, x # y
      PROVE  Apart(Round(n), Round(k), x, y)
  <2>1. ASSUME x \in D(n), y \in D(k) PROVE Place(n, x) # Place(k, y)
    <3>1. x \in 0 .. 3 /\ Place(n, x) = x + 8 * n /\ y \in 0 .. 3 /\ Place(k, y) = y + 8 * k
      BY <1>4, <2>1
    <3> QED
      BY <1>5, <3>1
  <2> DEFINE s == Round(n)
             u == Round(k)
  <2>2. /\ s.to = "av_b" /\ s.at = [t \in D(n) |-> Place(n, t)] /\ \A r \in s.from : r.array = "av_a"
        /\ u.to = "av_b" /\ u.at = [t \in D(k) |-> Place(k, t)] /\ \A r \in u.from : r.array = "av_a"
    BY <1>3
  <2> HIDE DEF s, u
  <2>3. x \in DOMAIN s.at /\ y \in DOMAIN u.at => s.at[x] # u.at[y]
    BY <2>1, <2>2
  <2>4. s.to = u.to /\ (\A r \in s.from : r.array # s.to) /\ (\A r \in u.from : r.array # s.to)
    BY <2>2
  <2>5. Apart(s, u, x, y)
    BY <2>3, <2>4, OtherElements
  <2> QED
    BY <2>5 DEF s, u
<1> DEFINE c == Cardinality(Rounds)
<1> HIDE DEF Round, body, c
<1>6. DOMAIN body = 1 .. c /\ c \in Nat /\ \A n \in 1 .. c : body[n] = Round(n - 1)
  BY <1>1, <1>2 DEF c
<1>7. ASSUME NEW x, NEW y, x # y, NEW i \in DOMAIN body, NEW j \in DOMAIN body
      PROVE  Apart(body[i], body[j], x, y)
  <2>1. i - 1 \in Nat /\ j - 1 \in Nat /\ body[i] = Round(i - 1) /\ body[j] = Round(j - 1)
    BY <1>6
  <2> QED
    BY <1>5, <1>7, <2>1
<1>8. ItemsApart(body)
  BY <1>7, Zenon DEF ItemsApart
<1>9. Sequence(body)
  <2> DEFINE All == {body[n] : n \in 1 .. c}
  <2>1. body \in [1 .. c -> All]
    BY <1>1, <1>6 DEF c
  <2> HIDE DEF All
  <2>2. body \in Seq(All)
    BY <1>6, <2>1, SeqDef, Zenon
  <2> QED
    BY <2>2, Zenon DEF Sequence
<1> QED
  BY <1>8, <1>9 DEF Kernel, body

LEMMA TilesGood ==
  /\ Good(group_mem) /\ Good(barrier_bug) /\ Good(convolution) /\ Good(list)
  /\ Good(bench(2 * global_threads * Side)) /\ Good(bench(global_threads * Side))
<1>1. Good(group_mem)
  BY GroupKernel, UsableCommands, GoodTuples, Zenon DEF group_mem
<1>2. Good(convolution)
  BY ConvolutionKernel, ByNumberKernels, UsableCommands, GoodLongTuples, Zenon DEF convolution
<1>3. Good(list)
  BY ListKernels, UsableCommands, GoodTuples, Zenon DEF list, Kernel
<1>4. ASSUME NEW size \in Nat PROVE Good(bench(size))
  <2>1. Kernel(for_loop(size))
    BY BenchKernel
  <2>2. \A b, c, d, e, f : Good(<<HostSet(<<b>>), HostSet(<<c, d>>), Enqueue("default", for_loop(size)),
                                Wait({3}), HostSet(<<e>>), Verify(f)>>)
    BY <2>1, UsableCommands, GoodLongTuples, Zenon
  <2> QED
    BY <2>2, Zenon DEF bench
<1>5. 2 * global_threads * Side \in Nat /\ global_threads * Side \in Nat
  BY DEF global_threads, Side
<1> QED
  BY <1>1, <1>2, <1>3, <1>4, <1>5, BarrierGood, Zenon

LEMMA ProgramsGood ==
  ASSUME NEW p \in DOMAIN Programs
  PROVE  /\ DOMAIN Programs[p] \subseteq Nat /\ Sequence(Programs[p])
         /\ \A k \in DOMAIN Programs[p] : Usable(Programs[p][k])
<1>1. Good(Programs[p])
  BY AsyncGood, LinkGood, BlackScholesGood, RawGood, ViewsGood, TilesGood DEF Programs
<1>2. PICK S : Programs[p] \in Seq(S) /\ \A c \in S : Usable(c)
  BY <1>1, Zenon DEF Good
<1> DEFINE s == Programs[p]
<1> HIDE DEF s
<1>3. DOMAIN s \subseteq Nat /\ \A k \in DOMAIN s : s[k] \in S
  BY <1>2 DEF s
<1>4. Sequence(s)
  BY <1>2, Zenon DEF s, Sequence
<1> QED
  BY <1>2, <1>3, <1>4 DEF s
------------------------------------------------------------------------------
(* What is finished.                                                       *)

Started(k) == \E x \in Grid(k) : items[k][x] > 0

Control ==
  /\ Commands \subseteq Nat
  /\ next \in {1} \cup {k + 1 : k \in Commands}
  /\ DOMAIN items = Commands
  /\ \A k \in Commands : items[k] \in [Grid(k) -> Nat]
  /\ \A k \in Commands : k >= next => ~Started(k)

(* A command has started after those it starts after. *)
StartedInOrder == \A k \in Enqueued : Started(k) => \A j \in StartsAfter(k) : Finished(j)

WaitsFor(h, j) ==
  \/ program[h].op = "wait" /\ j \in program[h].after
  \/ program[h].op = "waitView" /\ program[h].view = program[j].view

(* The host has passed a wait, or a call that blocks.                      *)
Passed ==
  \A j \in Devices, h \in Commands :
    j < h /\ h < next /\ (WaitsFor(h, j) \/ (synchronous /\ program[j].view = "default")) =>
      Finished(j)

Inv == Control /\ StartedInOrder /\ Passed

LEMMA Numbers ==
  ASSUME Inv
  PROVE  Commands \subseteq Nat /\ next \in Nat
<1>1. Commands \subseteq Nat /\ next \in {1} \cup {k + 1 : k \in Commands}
  BY Zenon DEF Inv, Control
<1> HIDE DEF Commands
<1> QED
  BY <1>1

(* A program does not change. *)
LEMMA Static ==
  ASSUME UNCHANGED given
  PROVE  /\ Commands' = Commands /\ Devices' = Devices
         /\ \A k : Grid(k)' = Grid(k) /\ IsDevice(k)' = IsDevice(k)
         /\ \A k : StartsAfter(k)' = StartsAfter(k)
         /\ \A h, j : WaitsFor(h, j)' = WaitsFor(h, j)
<1>1. program' = program /\ synchronous' = synchronous /\ name' = name
  BY DEF given
<1>2. Commands' = Commands
  BY <1>1, Zenon DEF Commands
<1>3. \A k : IsDevice(k)' = IsDevice(k)
  BY <1>1, Zenon DEF IsDevice
<1>4. \A k : Statements(k)' = Statements(k)
  BY <1>1, Zenon DEF Statements, HasBody, IsDevice
<1>5. \A k : Grid(k)' = Grid(k)
  BY <1>3, <1>4, Zenon DEF Grid
<1>6. \A k : Reads(k)' = Reads(k) /\ Writes(k)' = Writes(k)
  BY <1>4, Zenon DEF Reads, Writes
<1>7. Devices' = Devices
  BY <1>2, <1>3, Zenon DEF Devices
<1>8. \A j, k : Before(j, k)' = Before(j, k)
  BY <1>1, <1>6, Zenon DEF Before
<1>9. \A k : StartsAfter(k)' = StartsAfter(k)
  BY <1>7, <1>8, Zenon DEF StartsAfter
<1>10. \A h, j : WaitsFor(h, j)' = WaitsFor(h, j)
  BY <1>1, Zenon DEF WaitsFor
<1> QED
  BY <1>2, <1>3, <1>5, <1>7, <1>9, <1>10, Zenon

LEMMA InitInv == Init => Inv
<1> SUFFICES ASSUME Init PROVE Inv
  OBVIOUS
<1>1. Commands \subseteq Nat
  BY ProgramsGood DEF Init, Commands
<1>2. next = 1 /\ items = [k \in Commands |-> [x \in Grid(k) |-> 0]]
  BY DEF Init
<1>3. \A k \in Commands : items[k] = [x \in Grid(k) |-> 0]
  BY <1>2, Zenon
<1>4. ASSUME NEW k \in Commands PROVE ~Started(k) /\ items[k] \in [Grid(k) -> Nat]
  <2>1. items[k] = [x \in Grid(k) |-> 0]
    BY <1>3, Zenon
  <2> HIDE <1>3
  <2>2. items[k] \in [Grid(k) -> Nat] /\ \A x \in Grid(k) : items[k][x] = 0
    BY <2>1
  <2> QED
    BY <2>2 DEF Started
<1>5. DOMAIN items = Commands
  BY <1>2, Zenon
<1>6. Control
  BY <1>1, <1>2, <1>4, <1>5 DEF Control
<1>7. ~\E j \in Devices, h \in Commands : j < h /\ h < next
  BY <1>1, <1>2 DEF Devices
<1>8. Enqueued = {k \in Commands : k < next /\ IsDevice(k)}
  BY DEF Enqueued
<1> QED
  BY <1>4, <1>6, <1>7, <1>8, Zenon DEF Inv, StartedInOrder, Passed

(* A work-item that executes starts its command, and finishes none that    *)
(* was not; what is finished stays so.                                     *)
LEMMA RunItemEffects ==
  ASSUME Inv, NEW k \in Enqueued, NEW x \in Grid(k), RunItem(k, x)
  PROVE  /\ UNCHANGED given /\ next' = next
         /\ DOMAIN items' = Commands
         /\ \A j \in Commands : items'[j] \in [Grid(j) -> Nat]
         /\ \A j \in Commands : Started(j)' => Started(j) \/ j = k
         /\ \A j \in Commands : Finished(j) => Finished(j)'
         /\ MayStart(k)
<1>1. UNCHANGED given /\ next' = next /\ items' = [items EXCEPT ![k][x] = @ + 1]
  BY DEF RunItem
<1>2. MayStart(k) /\ items[k][x] < Len(program[k].body)
  BY DEF RunItem, MayExecute, Running
<1>3. k \in Commands /\ DOMAIN items = Commands /\ \A j \in Commands : items[j] \in [Grid(j) -> Nat]
  BY Zenon DEF Enqueued, Inv, Control
<1>4. items' = [items EXCEPT ![k] = [items[k] EXCEPT ![x] = items[k][x] + 1]]
  BY <1>1, Zenon
<1>5. items'[k] = [items[k] EXCEPT ![x] = items[k][x] + 1] /\ \A j \in Commands \ {k} : items'[j] = items[j]
  BY <1>3, <1>4
<1>6. DOMAIN items' = Commands
  BY <1>3, <1>4
<1>7. \A j \in Commands : items'[j] \in [Grid(j) -> Nat]
  BY <1>3, <1>5
<1>8. \A j : Grid(j)' = Grid(j)
  BY <1>1, Static
<1>9. program' = program
  BY <1>1 DEF given
<1>10. \A j \in Commands : Started(j)' => Started(j) \/ j = k
  BY <1>5, <1>8 DEF Started
<1>11. ASSUME NEW j \in Commands, Finished(j) PROVE Finished(j)'
  <2>1. CASE j = k
    <3>1. items[k][x] = Len(program[k].body) /\ items[k][x] \in Nat
      BY <1>3, <1>11, <2>1 DEF Finished
    <3> QED
      BY <1>2, <3>1
  <2>2. CASE j # k
    <3>1. items'[j] = items[j]
      BY <1>5, <2>2
    <3> QED
      BY <1>8, <1>9, <1>11, <3>1 DEF Finished
  <2> QED
    BY <2>1, <2>2
<1> QED
  BY <1>1, <1>2, <1>6, <1>7, <1>10, <1>11, Zenon

LEMMA RunItemInv ==
  ASSUME Inv, NEW k \in Enqueued, NEW x \in Grid(k), RunItem(k, x)
  PROVE  Inv'
<1>1. /\ UNCHANGED given /\ next' = next
      /\ DOMAIN items' = Commands
      /\ \A j \in Commands : items'[j] \in [Grid(j) -> Nat]
      /\ \A j \in Commands : Started(j)' => Started(j) \/ j = k
      /\ \A j \in Commands : Finished(j) => Finished(j)'
      /\ MayStart(k)
  BY RunItemEffects, Zenon
<1>2. /\ Commands' = Commands /\ Devices' = Devices
      /\ \A j : Grid(j)' = Grid(j) /\ IsDevice(j)' = IsDevice(j)
      /\ \A j : StartsAfter(j)' = StartsAfter(j)
      /\ \A h, j : WaitsFor(h, j)' = WaitsFor(h, j)
  BY <1>1, Static, Zenon
<1>3. program' = program /\ synchronous' = synchronous
  BY <1>1 DEF given
<1>4. Enqueued' = Enqueued /\ Enqueued \subseteq Commands /\ k < next /\ next \in Int
  <2>1. Enqueued' = Enqueued
    BY <1>1, <1>2, Zenon DEF Enqueued
  <2>2. next \in Int
    BY Numbers
  <2> QED
    BY <2>1, <2>2 DEF Enqueued
<1>5. Control'
  <2>1. \A j \in Commands : j >= next => ~Started(j)'
    <3>1. k \in Nat /\ ~(k >= next)
      BY <1>4, Numbers
    <3>2. \A j \in Commands : j >= next => ~Started(j)
      BY Zenon DEF Inv, Control
    <3> QED
      BY <1>1, <3>1, <3>2, Zenon
  <2>2. Commands \subseteq Nat /\ next \in {1} \cup {j + 1 : j \in Commands}
    BY Zenon DEF Inv, Control
  <2> QED
    BY <1>1, <1>2, <2>1, <2>2, Zenon DEF Control
<1>6. StartedInOrder'
  <2> SUFFICES ASSUME NEW m \in Enqueued, Started(m)', NEW j \in StartsAfter(m) PROVE Finished(j)'
    BY <1>2, <1>4, Zenon DEF StartedInOrder
  <2>1. j \in Devices /\ j \in Commands /\ j < m /\ Before(j, m) /\ m < next /\ m \in Commands
    BY DEF StartsAfter, Devices, Enqueued
  <2>2. j \in Enqueued
    <3>1. j \in Nat /\ m \in Nat
      BY <2>1, Numbers
    <3>2. j < next
      BY <1>4, <2>1, <3>1
    <3> QED
      BY <2>1, <3>2 DEF Enqueued, Devices
  <2>3. Finished(j)
    <3>1. CASE Started(m)
      BY <3>1 DEF Inv, StartedInOrder
    <3>2. CASE m = k
      BY <1>1, <2>1, <2>2, <3>2, Zenon DEF MayStart
    <3> QED
      BY <1>1, <2>1, <3>1, <3>2
  <2> QED
    BY <1>1, <2>1, <2>3
<1>7. Passed'
  <2>1. \A j \in Devices : j \in Commands
    BY DEF Devices
  <2> QED
    BY <1>1, <1>2, <1>3, <2>1, Zenon DEF Inv, Passed
<1> QED
  BY <1>5, <1>6, <1>7 DEF Inv

(* A step of the host goes on to the next command, unless it is in a call   *)
(* that blocks, and waits for what the command says.                       *)
LEMMA HostEffects ==
  ASSUME Inv, Host
  PROVE  /\ UNCHANGED given /\ items' = items
         /\ next \in Commands /\ next' = next + 1 /\ ~Blocked
         /\ \A j \in Enqueued : WaitsFor(next, j) => Finished(j)
<1>1. UNCHANGED given /\ items' = items
  BY DEF Host, HostEnqueues, HostWaits, HostWrites, HostFrees, HostVerifies
<1>2. next \in Commands /\ next' = next + 1 /\ ~Blocked
  BY DEF Host, HostEnqueues, HostWaits, HostWrites, HostFrees, HostVerifies, HostAt
<1>3. ASSUME NEW j \in Enqueued, WaitsFor(next, j) PROVE Finished(j)
  <2>1. program[next].op \in {"wait", "waitView"}
    BY <1>3 DEF WaitsFor
  <2>2. HostWaits
    BY <2>1 DEF Host, HostEnqueues, HostWrites, HostFrees, HostVerifies, HostAt
  <2>3. CASE program[next].op = "wait"
    <3>1. j \in program[next].after
      BY <1>3, <2>3 DEF WaitsFor
    <3>2. \A k \in program[next].after : Awaits(k)
      BY <2>2, <2>3 DEF HostWaits, HostAt
    <3> QED
      BY <3>1, <3>2 DEF Awaits
  <2>4. CASE program[next].op = "waitView"
    <3>1. program[j].view = program[next].view
      BY <1>3, <2>4 DEF WaitsFor
    <3>2. \A k \in Enqueued : program[k].view = program[next].view => Awaits(k)
      BY <2>2, <2>4 DEF HostWaits, HostAt
    <3> QED
      BY <3>1, <3>2 DEF Awaits
  <2> QED
    BY <2>1, <2>3, <2>4
<1> QED
  BY <1>1, <1>2, <1>3

LEMMA Unchanged ==
  ASSUME UNCHANGED given, items' = items
  PROVE  \A k : Finished(k)' = Finished(k) /\ Started(k)' = Started(k)
<1>1. \A k : Grid(k)' = Grid(k)
  BY Static, Zenon
<1>2. program' = program
  BY DEF given
<1>3. \A k : Finished(k)' = Finished(k)
  BY <1>1, <1>2, Zenon DEF Finished
<1>4. \A k : Started(k)' = Started(k)
  BY <1>1, Zenon DEF Started
<1> QED
  BY <1>3, <1>4, Zenon

LEMMA HostInv ==
  ASSUME Inv, Host
  PROVE  Inv'
<1>1. /\ UNCHANGED given /\ items' = items
      /\ next \in Commands /\ next' = next + 1 /\ ~Blocked
      /\ \A j \in Enqueued : WaitsFor(next, j) => Finished(j)
  BY HostEffects, Zenon
<1>2. /\ Commands' = Commands /\ Devices' = Devices
      /\ \A j : Grid(j)' = Grid(j) /\ IsDevice(j)' = IsDevice(j)
      /\ \A j : StartsAfter(j)' = StartsAfter(j)
      /\ \A h, j : WaitsFor(h, j)' = WaitsFor(h, j)
  BY <1>1, Static, Zenon
<1>3. \A k : Finished(k)' = Finished(k) /\ Started(k)' = Started(k)
  BY <1>1, Unchanged, Zenon
<1>4. program' = program /\ synchronous' = synchronous
  BY <1>1 DEF given
<1>5. Commands \subseteq Nat /\ DOMAIN items = Commands /\ \A k \in Commands : items[k] \in [Grid(k) -> Nat]
  BY Zenon DEF Inv, Control
<1>6. \A k \in Commands : k >= next => ~Started(k)
  BY Zenon DEF Inv, Control
<1>7. Control'
  <2>1. \A k \in Commands : k >= next + 1 => ~Started(k)
    <3>1. \A k \in Commands : k >= next + 1 => k >= next
      BY <1>1, <1>5
    <3> QED
      BY <1>6, <3>1
  <2>2. next + 1 \in {1} \cup {k + 1 : k \in Commands}
    BY <1>1
  <2> QED
    BY <1>1, <1>2, <1>3, <1>5, <2>1, <2>2, Zenon DEF Control
<1>8. StartedInOrder'
  <2>1. \A k \in Commands : k < next + 1 /\ Started(k) => k < next
    BY <1>1, <1>5, <1>6
  <2>2. \A k : k \in Enqueued' /\ Started(k) => k \in Enqueued
    BY <1>1, <1>2, <2>1, Zenon DEF Enqueued
  <2> QED
    BY <1>2, <1>3, <2>2, Zenon DEF StartedInOrder, Inv
<1>9. Passed'
  <2> SUFFICES ASSUME NEW j \in Devices, NEW h \in Commands, j < h, h < next + 1,
                      WaitsFor(h, j) \/ (synchronous /\ program[j].view = "default")
               PROVE  Finished(j)
    BY <1>1, <1>2, <1>3, <1>4, Zenon DEF Passed
  <2>1. j \in Commands /\ IsDevice(j) /\ j \in Nat /\ h \in Nat /\ next \in Nat
    BY <1>1, <1>5 DEF Devices
  <2>2. CASE h < next
    BY <2>2 DEF Inv, Passed
  <2>3. CASE ~(h < next)
    <3>1. h = next /\ j < next
      BY <2>1, <2>3
    <3>2. j \in Enqueued
      BY <2>1, <3>1 DEF Enqueued
    <3>3. CASE WaitsFor(h, j)
      BY <1>1, <3>1, <3>2, <3>3
    <3>4. CASE synchronous /\ program[j].view = "default"
      BY <1>1, <3>2, <3>4 DEF Blocked
    <3> QED
      BY <3>3, <3>4
  <2> QED
    BY <2>2, <2>3
<1> QED
  BY <1>7, <1>8, <1>9 DEF Inv

LEMMA StepInv == Inv /\ [Next]_vars => Inv'
<1> SUFFICES ASSUME Inv, [Next]_vars PROVE Inv'
  OBVIOUS
<1>1. CASE Device
  <2>1. PICK k \in Enqueued : \E x \in Grid(k) : RunItem(k, x)
    BY <1>1 DEF Device
  <2>2. PICK x \in Grid(k) : RunItem(k, x)
    BY <2>1
  <2> QED
    BY <2>2, RunItemInv, Zenon
<1>2. CASE Host
  BY <1>2, HostInv, Zenon
<1>3. CASE UNCHANGED vars
  <2>1. UNCHANGED given /\ items' = items /\ next' = next
    BY <1>3 DEF vars
  <2>2. program' = program /\ synchronous' = synchronous
    BY <2>1 DEF given
  <2>3. /\ Commands' = Commands /\ Devices' = Devices
        /\ \A j : Grid(j)' = Grid(j) /\ IsDevice(j)' = IsDevice(j)
        /\ \A j : StartsAfter(j)' = StartsAfter(j)
        /\ \A h, j : WaitsFor(h, j)' = WaitsFor(h, j)
    BY <2>1, Static, Zenon
  <2>4. \A k : Finished(k)' = Finished(k) /\ Started(k)' = Started(k)
    BY <2>1, Unchanged, Zenon
  <2>5. Enqueued' = Enqueued
    BY <2>1, <2>3, Zenon DEF Enqueued
  <2> QED
    BY <2>1, <2>2, <2>3, <2>4, <2>5, Zenon DEF Inv, Control, StartedInOrder, Passed
<1> QED
  BY <1>1, <1>2, <1>3 DEF Next
------------------------------------------------------------------------------
(* What follows for a program whose text orders what conflicts.            *)

(* What is finished with finished commands is finished: those that started  *)
(* have all they start after behind them.                                  *)
LEMMA FinishedTogether ==
  ASSUME Inv, NEW B, \A j \in B : j \in Devices /\ j < next /\ Finished(j)
  PROVE  \A j \in FinishedWith(B) : Finished(j)
<1> DEFINE S == {k \in Devices : k < next /\ Finished(k)}
<1>1. Commands \subseteq Nat /\ next \in Nat /\ \A k \in Commands : items[k] \in [Grid(k) -> Nat]
  BY Numbers, Zenon DEF Inv, Control
<1>2. ASSUME NEW k \in S, Grid(k) # {}, Len(program[k].body) # 0, NEW j \in StartsAfter(k)
      PROVE  j \in S
  <2>1. k \in Devices /\ k \in Commands /\ IsDevice(k) /\ k < next /\ Finished(k)
    BY DEF Devices
  <2>2. PICK x \in Grid(k) : TRUE
    BY <1>2
  <2>3. items[k][x] = Len(program[k].body) /\ items[k][x] \in Nat
    BY <1>1, <2>1 DEF Finished
  <2>4. Started(k)
    BY <1>2, <2>3 DEF Started
  <2>5. k \in Enqueued
    BY <2>1 DEF Enqueued
  <2>6. Finished(j)
    BY <2>4, <2>5 DEF Inv, StartedInOrder
  <2>7. j \in Devices /\ j \in Commands /\ j < k
    BY DEF StartsAfter, Devices
  <2>8. j < next
    BY <1>1, <2>1, <2>7
  <2> QED
    BY <2>6, <2>7, <2>8
<1>3. Closed(S)
  BY <1>2, Zenon DEF Closed
<1>4. B \subseteq S /\ S \subseteq Devices
  OBVIOUS
<1>5. \A j \in FinishedWith(B) : j \in S
  <2> HIDE DEF S
  <2> QED  BY <1>3, <1>4, Zenon DEF FinishedWith
<1> QED
  BY <1>5

LEMMA WaitedIsFinished ==
  ASSUME Inv, NEW n \in Nat, (n \in Commands /\ n < next) \/ (n = next /\ ~Blocked)
  PROVE  \A j \in HostWaited(n) : j \in Devices /\ j < next /\ Finished(j)
<1> SUFFICES ASSUME NEW j \in HostWaited(n) PROVE j \in Devices /\ j < next /\ Finished(j)
  OBVIOUS
<1>1. Commands \subseteq Nat /\ next \in Nat
  BY Numbers
<1>2. j \in Devices /\ j \in Commands /\ IsDevice(j) /\ j < n
  BY DEF HostWaited, Devices
<1>3. j < next
  BY <1>1, <1>2
<1>4. j \in Enqueued
  BY <1>2, <1>3 DEF Enqueued
<1>5. CASE synchronous /\ program[j].view = "default"
  <2>1. CASE n \in Commands /\ n < next
    <3>1. Passed
      BY DEF Inv
    <3>2. Finished(j)
      BY <1>2, <1>5, <2>1, <3>1, Zenon DEF Passed
    <3> QED
      BY <1>2, <1>3, <3>2
  <2>2. CASE ~Blocked
    <3>1. Finished(j)
      BY <1>4, <1>5, <2>2, Zenon DEF Blocked
    <3> QED
      BY <1>2, <1>3, <3>1
  <2> QED
    BY <2>1, <2>2
<1>6. CASE \E h \in Commands : j < h /\ h < n /\ WaitsFor(h, j)
  <2>1. PICK h \in Commands : j < h /\ h < n /\ WaitsFor(h, j)
    BY <1>6
  <2>2. h < next
    BY <1>1, <2>1
  <2>3. j < h /\ h < next /\ WaitsFor(h, j) => Finished(j)
    <3>1. Passed
      BY DEF Inv
    <3> QED
      BY <1>2, <3>1, Zenon DEF Passed
  <2>4. Finished(j)
    BY <2>1, <2>2, <2>3
  <2> QED
    BY <1>2, <1>3, <2>4
<1> QED
  BY <1>5, <1>6 DEF HostWaited, WaitsFor

LEMMA OverlapExcluded ==
  ASSUME Inv, CommandsOrdered
  PROVE  NoConflictingOverlap
<1>1. Commands \subseteq Nat /\ next \in Nat
  BY Numbers
<1>2. ASSUME NEW j \in Enqueued, NEW k \in Enqueued, j < k, Running(k), ~Finished(j)
      PROVE  ~Conflict(j, k) /\ ~Conflict(k, j)
  <2>1. j \in Devices /\ k \in Devices /\ k \in Commands /\ k \in Nat /\ k < next
    BY <1>1 DEF Enqueued, Devices
  <2>2. \A i \in HostWaited(k) : i \in Devices /\ i < next /\ Finished(i)
    <3>1. (k \in Commands /\ k < next) \/ (k = next /\ ~Blocked)
      BY <2>1, Zenon
    <3> QED
      BY <2>1, <3>1, WaitedIsFinished, Zenon
  <2>3. ASSUME NEW i \in StartsAfter(k) PROVE i \in Devices /\ i < next /\ Finished(i)
    <3>1. i \in Devices /\ i \in Commands /\ IsDevice(i) /\ i < k /\ Before(i, k)
      BY DEF StartsAfter, Devices
    <3>2. i < next
      BY <1>1, <2>1, <3>1
    <3>3. i \in Enqueued
      BY <3>1, <3>2 DEF Enqueued
    <3>4. MayStart(k)
      BY <1>2 DEF Running
    <3> QED
      BY <3>1, <3>2, <3>3, <3>4, Zenon DEF MayStart
  <2>4. \A i \in HostWaited(k) \cup StartsAfter(k) : i \in Devices /\ i < next /\ Finished(i)
    BY <2>2, <2>3
  <2>5. \A i \in FinishedWith(HostWaited(k) \cup StartsAfter(k)) : Finished(i)
    <3> DEFINE B == HostWaited(k) \cup StartsAfter(k)
    <3>1. \A i \in B : i \in Devices /\ i < next /\ Finished(i)
      BY <2>4
    <3> HIDE DEF B
    <3>2. \A i \in FinishedWith(B) : Finished(i)
      BY <3>1, FinishedTogether
    <3> QED
      BY <3>2 DEF B
  <2> QED
    BY <1>2, <2>1, <2>5, Zenon DEF CommandsOrdered
<1> SUFFICES ASSUME NEW j \in Enqueued, NEW k \in Enqueued, j # k, Running(j), Running(k)
             PROVE  ~Conflict(j, k)
  BY DEF NoConflictingOverlap
<1>3. ~Finished(j) /\ ~Finished(k)
  BY DEF Running
<1>4. j < k \/ k < j
  BY <1>1 DEF Enqueued
<1> QED
  BY <1>2, <1>3, <1>4

LEMMA HostRaceExcluded ==
  ASSUME Inv, Ordered => HostOrdered
  PROVE  HostDoesNotRace
<1> SUFFICES ASSUME Ordered, ~Blocked, NEW k \in Enqueued, ~Finished(k)
             PROVE  next \in Commands /\ ~HostConflict(k, next)
  BY DEF HostDoesNotRace
<1>1. next \in Nat /\ next \in {1} \cup {h + 1 : h \in Commands}
  BY Numbers, Zenon DEF Inv, Control
<1>2. k \in Devices /\ k < next
  BY DEF Enqueued, Devices
<1>3. \A j \in HostWaited(next) : j \in Devices /\ j < next /\ Finished(j)
  BY <1>1, WaitedIsFinished
<1>4. \A j \in FinishedWith(HostWaited(next)) : Finished(j)
  BY <1>3, FinishedTogether
<1> QED
  BY <1>1, <1>2, <1>4, Zenon DEF HostOrdered

(* What the text says does not change. *)
LEMMA TextStays ==
  ASSUME UNCHANGED given
  PROVE  /\ CommandsOrdered => CommandsOrdered'
         /\ (Ordered => HostOrdered) => (Ordered => HostOrdered)'
         /\ LoopsOrdered => LoopsOrdered'
<1>1. program' = program /\ synchronous' = synchronous /\ name' = name
  BY DEF given
<1>2. /\ Commands' = Commands /\ Devices' = Devices
      /\ \A k : Grid(k)' = Grid(k) /\ IsDevice(k)' = IsDevice(k)
      /\ \A k : StartsAfter(k)' = StartsAfter(k)
  BY Static, Zenon
<1>3. \A k : Statements(k)' = Statements(k)
  BY <1>1, Zenon DEF Statements, HasBody, IsDevice
<1>4. \A k : Reads(k)' = Reads(k) /\ Writes(k)' = Writes(k)
  BY <1>3, Zenon DEF Reads, Writes
<1>5. \A n : HostWaited(n)' = HostWaited(n)
  BY <1>1, <1>2, Zenon DEF HostWaited
<1>6. \A S : Closed(S)' = Closed(S)
  BY <1>1, <1>2, Zenon DEF Closed
<1>7. \A B : FinishedWith(B)' = FinishedWith(B)
  BY <1>2, <1>6, Zenon DEF FinishedWith
<1>8. \A j, k : Conflict(j, k)' = Conflict(j, k)
  BY <1>4, Zenon DEF Conflict
<1>9. \A n : HostReads(n)' = HostReads(n) /\ HostSets(n)' = HostSets(n)
  BY <1>1, <1>4, Zenon DEF HostReads, HostSets
<1>10. \A k, n : HostConflict(k, n)' = HostConflict(k, n)
  BY <1>4, <1>9, Zenon DEF HostConflict
<1>11. Ordered' = Ordered
  BY <1>1, Zenon DEF Ordered
<1>12. CommandsOrdered => CommandsOrdered'
  BY <1>2, <1>5, <1>7, <1>8, Zenon DEF CommandsOrdered
<1>13. HostOrdered => HostOrdered'
  BY <1>2, <1>5, <1>7, <1>10, Zenon DEF HostOrdered
<1>14. LoopsOrdered => LoopsOrdered'
  BY <1>1, <1>2, <1>5, <1>7, <1>10, Zenon DEF LoopsOrdered
<1> QED
  BY <1>11, <1>12, <1>13, <1>14

LEMMA GivenStays == [Next]_vars => UNCHANGED given
BY DEF Next, Device, RunItem, Host, HostEnqueues, HostWaits, HostWrites, HostFrees, HostVerifies, vars

LEMMA TextHolds ==
  /\ Init /\ Synchronized => CommandsOrdered /\ (Ordered => HostOrdered)
  /\ CommandsOrdered /\ [Next]_vars => CommandsOrdered'
  /\ (Ordered => HostOrdered) /\ [Next]_vars => (Ordered => HostOrdered)'
<1>1. Init /\ Synchronized => CommandsOrdered /\ (Ordered => HostOrdered)
  BY DEF Init, Synchronized
<1>2. [Next]_vars => UNCHANGED given
  BY GivenStays
<1> QED
  BY <1>1, <1>2, TextStays, Zenon

(* No command runs before those are finished that its view, its futures or  *)
(* its data order it after: in any program, on both runtimes.              *)
THEOREM StartsInOrder == Spec => []StartedInOrder
<1>1. Inv => StartedInOrder
  BY DEF Inv
<1> QED
  BY <1>1, InitInv, StepInv, PTL DEF Spec

(* Two commands that conflict do not run at a time if the text of the       *)
(* program orders them, be it by a chain of commands and waits of the host. *)
THEOREM NoConflictingOverlapHolds == Spec /\ Synchronized => []NoConflictingOverlap
<1>1. Inv /\ CommandsOrdered => NoConflictingOverlap
  BY OverlapExcluded
<1>2. Init /\ Synchronized => CommandsOrdered
  BY TextHolds
<1>3. CommandsOrdered /\ [Next]_vars => CommandsOrdered'
  BY TextHolds
<1> QED
  BY <1>1, <1>2, <1>3, InitInv, StepInv, PTL DEF Spec

(* The host does not race with a command that the text of the program       *)
(* finishes before, on a runtime that blocks and on one that does not.      *)
THEOREM HostDoesNotRaceHolds == Spec /\ Synchronized => []HostDoesNotRace
<1> DEFINE T == Ordered => HostOrdered
<1>1. Inv /\ T => HostDoesNotRace
  BY HostRaceExcluded
<1>2. Init /\ Synchronized => T
  BY TextHolds
<1>3. T /\ [Next]_vars => T'
  BY TextHolds
<1> HIDE DEF T
<1> QED
  BY <1>1, <1>2, <1>3, InitInv, StepInv, PTL DEF Spec
------------------------------------------------------------------------------
(* No two work-items race.                                                  *)

(* Who has passed a barrier has found all others at it. *)
BarriersMet ==
  \A k \in Commands : \A x, y \in Grid(k) : \A b \in Nat :
    b < items[k][x] /\ program[k].body[b + 1].synced => b <= items[k][y]

Kernels == \A k \in Commands : IsDevice(k) => Kernel(program[k].body)

LEMMA KernelsGiven == Init => Kernels /\ BarriersMet
<1> SUFFICES ASSUME Init PROVE Kernels /\ BarriersMet
  OBVIOUS
<1>1. Kernels
  BY ProgramsGood DEF Init, Commands, Kernels, IsDevice, Usable
<1>2. \A k \in Commands : items[k] = [x \in Grid(k) |-> 0]
  BY Zenon DEF Init
<1>3. ASSUME NEW k \in Commands, NEW x \in Grid(k), NEW b \in Nat PROVE ~(b < items[k][x])
  <2>1. items[k][x] = 0
    BY <1>2, Zenon
  <2> QED
    BY <2>1
<1> QED
  BY <1>1, <1>3, Zenon DEF BarriersMet

LEMMA BarriersStay == Inv /\ BarriersMet /\ [Next]_vars => BarriersMet'
<1> SUFFICES ASSUME Inv, BarriersMet, [Next]_vars PROVE BarriersMet'
  OBVIOUS
<1>1. UNCHANGED given
  BY GivenStays
<1>2. program' = program /\ Commands' = Commands /\ \A k : Grid(k)' = Grid(k)
  BY <1>1, Static, Zenon DEF given
<1>3. CASE items' = items
  BY <1>2, <1>3, Zenon DEF BarriersMet
<1>4. ASSUME NEW k \in Enqueued, NEW x \in Grid(k), RunItem(k, x) PROVE BarriersMet'
  <2>1. k \in Commands /\ DOMAIN items = Commands /\ \A j \in Commands : items[j] \in [Grid(j) -> Nat]
    BY Zenon DEF Enqueued, Inv, Control
  <2>2. items' = [items EXCEPT ![k] = [items[k] EXCEPT ![x] = items[k][x] + 1]]
    BY <1>4, Zenon DEF RunItem
  <2>3. /\ \A j \in Commands \ {k} : items'[j] = items[j]
        /\ items'[k] = [items[k] EXCEPT ![x] = items[k][x] + 1]
    BY <2>1, <2>2
  <2>4. Upcoming(k, x).synced => \A y \in Grid(k) : items[k][y] >= items[k][x]
    BY <1>4 DEF RunItem, MayExecute
  <2> SUFFICES ASSUME NEW j \in Commands, NEW y \in Grid(j), NEW z \in Grid(j), NEW b \in Nat,
                      b < items'[j][y], program[j].body[b + 1].synced
               PROVE  b <= items'[j][z]
    BY <1>2 DEF BarriersMet
  <2>5. CASE j # k
    BY <2>3, <2>5 DEF BarriersMet
  <2>6. CASE j = k
    <3>1. items[k] \in [Grid(k) -> Nat] /\ y \in Grid(k) /\ z \in Grid(k)
      BY <2>1, <2>6
    <3>2. items[k][z] <= items'[k][z] /\ items'[k][z] \in Nat
      BY <2>3, <3>1
    <3>3. b <= items[k][z]
      <4>1. CASE b < items[k][y]
        BY <2>6, <4>1 DEF BarriersMet
      <4>2. CASE ~(b < items[k][y])
        <5>1. y = x /\ b = items[k][x]
          BY <2>3, <2>6, <3>1, <4>2
        <5>2. Upcoming(k, x).synced
          BY <2>6, <5>1, Zenon DEF Upcoming
        <5> QED
          BY <2>4, <3>1, <5>1, <5>2
      <4> QED
        BY <4>1, <4>2
    <3> QED
      BY <2>6, <3>1, <3>2, <3>3
  <2> QED
    BY <2>5, <2>6
<1>5. items' = items \/ \E k \in Enqueued : \E x \in Grid(k) : RunItem(k, x)
  BY DEF Next, Device, Host, HostEnqueues, HostWaits, HostWrites, HostFrees, HostVerifies, vars
<1> QED
  BY <1>3, <1>4, <1>5

LEMMA KernelsStay == Kernels /\ [Next]_vars => Kernels'
<1> SUFFICES ASSUME Kernels, [Next]_vars PROVE Kernels'
  OBVIOUS
<1>1. UNCHANGED given
  BY GivenStays
<1>2. program' = program /\ Commands' = Commands /\ \A k : IsDevice(k)' = IsDevice(k)
  BY <1>1, Static, Zenon DEF given
<1> QED
  BY <1>2, Zenon DEF Kernels

(* Work-items that can go on stand where no barrier separates them. *)
LEMMA UpcomingTogether ==
  ASSUME Inv, BarriersMet, Kernels, NEW k \in Enqueued, NEW x \in Grid(k), NEW y \in Grid(k),
         MayExecute(k, x), MayExecute(k, y), items[k][x] <= items[k][y]
  PROVE  /\ items[k][x] + 1 \in DOMAIN program[k].body /\ items[k][y] + 1 \in DOMAIN program[k].body
         /\ Together(program[k].body, items[k][x] + 1, items[k][y] + 1)
         /\ ItemsApart(program[k].body)
<1> DEFINE body == program[k].body
           a == items[k][x]
           b == items[k][y]
<1>1. k \in Commands /\ IsDevice(k) /\ a \in Nat /\ b \in Nat
  BY DEF Enqueued, Inv, Control
<1>2. Kernel(body)
  BY <1>1 DEF Kernels
<1>3. a < Len(body) /\ b < Len(body) /\ (body[b + 1].synced => a >= b)
  BY DEF MayExecute, Upcoming
<1>4. \A n \in Nat : n < b /\ body[n + 1].synced => n <= a
  BY <1>1 DEF BarriersMet
<1>5. a <= b
  OBVIOUS
<1> HIDE DEF body, a, b
<1>6. PICK S : body \in Seq(S)
  BY <1>2 DEF Kernel, Sequence
<1>7. a + 1 \in DOMAIN body /\ b + 1 \in DOMAIN body
  BY <1>1, <1>3, <1>6
<1>8. ASSUME NEW n \in (a + 1) + 1 .. b + 1, body[n].synced PROVE FALSE
  <2>1. n - 1 \in Nat /\ n = (n - 1) + 1 /\ n - 1 > a /\ (n - 1 < b \/ n = b + 1)
    BY <1>1
  <2>2. CASE n - 1 < b
    <3>1. body[(n - 1) + 1].synced
      BY <1>8, <2>1
    <3>2. n - 1 <= a
      BY <1>4, <2>1, <2>2, <3>1
    <3> QED
      BY <1>1, <2>1, <3>2
  <2>3. CASE n = b + 1
    <3>1. body[b + 1].synced
      BY <1>8, <2>3
    <3> QED
      BY <1>1, <1>3, <2>1, <2>3, <3>1
  <2> QED
    BY <2>1, <2>2, <2>3
<1>9. Together(body, a + 1, b + 1)
  BY <1>1, <1>5, <1>8 DEF Together
<1> QED
  BY <1>2, <1>7, <1>9 DEF body, a, b, Kernel

(* In every program, for arrays and images of every size: work-items that   *)
(* both can execute their next statement touch different elements, or the   *)
(* same only to read them or atomically.                                   *)
THEOREM NoItemRaceHolds == Spec => []NoItemRace
<1>1. Inv /\ Kernels /\ BarriersMet => NoItemRace
  <2> SUFFICES ASSUME Inv, Kernels, BarriersMet, NEW k \in Enqueued, NEW x \in Grid(k), NEW y \in Grid(k),
                      x # y, MayExecute(k, x), MayExecute(k, y)
               PROVE  \/ Written(Upcoming(k, x), x) \cap Touched(mem, Upcoming(k, y), y) = {}
                      \/ Upcoming(k, x).atomic /\ Upcoming(k, y).atomic
    BY DEF NoItemRace
  <2>1. items[k][x] \in Nat /\ items[k][y] \in Nat
    BY DEF Enqueued, Inv, Control
  <2>2. CASE items[k][x] <= items[k][y]
    <3>1. Apart(Upcoming(k, x), Upcoming(k, y), x, y) \/ (Upcoming(k, x).atomic /\ Upcoming(k, y).atomic)
      BY <2>2, UpcomingTogether DEF ItemsApart, Upcoming
    <3> QED
      BY <3>1 DEF Apart
  <2>3. CASE items[k][y] <= items[k][x]
    <3>1. Apart(Upcoming(k, y), Upcoming(k, x), y, x) \/ (Upcoming(k, y).atomic /\ Upcoming(k, x).atomic)
      BY <2>3, UpcomingTogether DEF ItemsApart, Upcoming
    <3> QED
      BY <3>1 DEF Apart
  <2> QED
    BY <2>1, <2>2, <2>3
<1> QED
  BY <1>1, InitInv, StepInv, KernelsGiven, BarriersStay, KernelsStay, PTL DEF Spec

------------------------------------------------------------------------------
(* What is left in memory.  The history of a program is what its commands   *)
(* would do one after the other.  An element of memory holds at any time    *)
(* what it holds at those places of the history where exactly the           *)
(* statements that set it have come that have been executed; and a          *)
(* statement only touches elements that are so settled at its own place.    *)

(* The equations that define memory after n statements, and after k        *)
(* commands.                                                               *)
LEMMA ExecutedSteps ==
  ASSUME NEW m, NEW body, NEW captured
  PROVE  /\ Executed(m, body, captured)[0] = m
         /\ \A n \in Nat : Executed(m, body, captured)[n + 1] =
                             ExecuteStatement(Executed(m, body, captured)[n], body[n + 1], captured)
<1> DEFINE F(v, n)   == ExecuteStatement(v, body[n], captured)
           Is(D, g)  == g = [n \in D |-> IF n = 0 THEN m ELSE F(g[n - 1], n)]
           Up(n)     == CHOOSE g : Is(0 .. n, g)
           all       == [n \in Nat |-> Up(n)[n]]
<1>1. Executed(m, body, captured) = CHOOSE g : Is(Nat, g)
  BY Zenon DEF Executed
<1> HIDE DEF F
<1>2. \A n \in Nat : Is(0 .. n, Up(n))
  <2> DEFINE Done == {n \in Nat : \E g : Is(0 .. n, g)}
  <2>1. 0 \in Done
    <3>1. Is(0 .. 0, [n \in 0 .. 0 |-> m])
      OBVIOUS
    <3> QED
      BY <3>1
  <2>2. ASSUME NEW n \in Nat, n \in Done PROVE n + 1 \in Done
    <3>1. PICK g : Is(0 .. n, g)
      BY <2>2
    <3> DEFINE h == [i \in 0 .. n + 1 |-> IF i <= n THEN g[i] ELSE F(g[n], n + 1)]
    <3>2. ASSUME NEW i \in 0 .. n + 1 PROVE h[i] = IF i = 0 THEN m ELSE F(h[i - 1], i)
      <4>1. CASE i <= n
        <5>1. h[i] = g[i] /\ i \in 0 .. n
          BY <4>1
        <5>2. g[i] = IF i = 0 THEN m ELSE F(g[i - 1], i)
          BY <3>1, <5>1
        <5>3. i # 0 => h[i - 1] = g[i - 1]
          BY <4>1
        <5> QED
          BY <5>1, <5>2, <5>3
      <4>2. CASE ~(i <= n)
        <5>1. i = n + 1 /\ h[i] = F(g[n], n + 1) /\ h[n] = g[n] /\ i - 1 = n /\ i # 0
          BY <4>2
        <5> QED
          BY <5>1
      <4> QED
        BY <4>1, <4>2
    <3>3. Is(0 .. n + 1, h)
      BY <3>2
    <3> HIDE DEF h
    <3>4. \E q : Is(0 .. n + 1, q)
      BY <3>3, Zenon
    <3> QED
      BY <3>4
  <2>3. \A n \in Nat : n \in Done
    <3> HIDE DEF Done
    <3> QED
      BY <2>1, <2>2, NumberInduction
  <2> QED
    BY <2>3
<1>3. ASSUME NEW n \in Nat PROVE Up(n + 1)[n] = Up(n)[n]
  <2> DEFINE Matching == {i \in Nat : i <= n => Up(n + 1)[i] = Up(n)[i]}
  <2>1. \A i \in 0 .. n : Up(n)[i] = IF i = 0 THEN m ELSE F(Up(n)[i - 1], i)
    <3>1. Is(0 .. n, Up(n))
      BY <1>2
    <3> HIDE DEF Up
    <3> QED
      BY <3>1
  <2>2. \A i \in 0 .. n + 1 : Up(n + 1)[i] = IF i = 0 THEN m ELSE F(Up(n + 1)[i - 1], i)
    <3>1. Is(0 .. n + 1, Up(n + 1))
      <4>1. n + 1 \in Nat
        OBVIOUS
      <4> HIDE DEF Is, Up
      <4> QED
        BY <1>2, <4>1
    <3> HIDE DEF Up
    <3> QED
      BY <3>1
  <2> HIDE DEF Up
  <2>3. 0 \in Matching
    BY <2>1, <2>2
  <2>4. ASSUME NEW i \in Nat, i \in Matching PROVE i + 1 \in Matching
    <3> SUFFICES ASSUME i + 1 <= n PROVE Up(n + 1)[i + 1] = Up(n)[i + 1]
      OBVIOUS
    <3>1. Up(n)[i + 1] = F(Up(n)[i], i + 1) /\ Up(n + 1)[i + 1] = F(Up(n + 1)[i], i + 1)
      BY <2>1, <2>2
    <3> QED
      BY <2>4, <3>1
  <2>5. \A i \in Nat : i \in Matching
    <3> HIDE DEF Matching
    <3> QED
      BY <2>3, <2>4, NumberInduction
  <2> QED
    BY <2>5
<1>4. ASSUME NEW n \in Nat PROVE all[n] = IF n = 0 THEN m ELSE F(all[n - 1], n)
  <2>1. Up(n)[n] = IF n = 0 THEN m ELSE F(Up(n)[n - 1], n)
    <3>1. Is(0 .. n, Up(n))
      BY <1>2
    <3> HIDE DEF Up
    <3> QED
      BY <3>1
  <2>2. n # 0 => Up(n)[n - 1] = Up(n - 1)[n - 1]
    <3>1. n # 0 => n - 1 \in Nat /\ (n - 1) + 1 = n
      OBVIOUS
    <3> HIDE DEF Up
    <3> QED
      BY <1>3, <3>1
  <2>3. all[n] = Up(n)[n] /\ (n # 0 => all[n - 1] = Up(n - 1)[n - 1])
    <3> HIDE DEF Up
    <3> QED
      OBVIOUS
  <2> HIDE DEF Up, all
  <2> QED
    BY <2>1, <2>2, <2>3
<1>5. Is(Nat, all)
  <2> HIDE DEF Up
  <2> QED
    BY <1>4
<1> DEFINE g == Executed(m, body, captured)
<1>6. Is(Nat, g)
  <2> HIDE DEF all
  <2> QED
    BY <1>1, <1>5
<1> HIDE DEF g
<1>7. g[0] = m /\ \A n \in Nat : g[n + 1] = F(g[n], n + 1)
  BY <1>6
<1> QED
  BY <1>7 DEF g, F

InTurnIs(m) ==
  m[0] = Memory /\ \A k \in Nat : m[k + 1] = ExecuteAll(m[k], Body(k + 1), taken[k + 1])

LEMMA InTurnSteps == InTurnIs(InTurn)
<1> DEFINE m         == Memory
           F(v, k)   == ExecuteAll(v, Body(k), taken[k])
           Is(D, g)  == g = [n \in D |-> IF n = 0 THEN m ELSE F(g[n - 1], n)]
           Up(n)     == CHOOSE g : Is(0 .. n, g)
           all       == [n \in Nat |-> Up(n)[n]]
<1>1. InTurn = CHOOSE g : Is(Nat, g)
  BY Zenon DEF InTurn
<1> HIDE DEF F, m
<1>2. \A n \in Nat : Is(0 .. n, Up(n))
  <2> DEFINE Done == {n \in Nat : \E g : Is(0 .. n, g)}
  <2>1. 0 \in Done
    <3>1. Is(0 .. 0, [n \in 0 .. 0 |-> m])
      OBVIOUS
    <3> QED
      BY <3>1
  <2>2. ASSUME NEW n \in Nat, n \in Done PROVE n + 1 \in Done
    <3>1. PICK g : Is(0 .. n, g)
      BY <2>2
    <3> DEFINE h == [i \in 0 .. n + 1 |-> IF i <= n THEN g[i] ELSE F(g[n], n + 1)]
    <3>2. ASSUME NEW i \in 0 .. n + 1 PROVE h[i] = IF i = 0 THEN m ELSE F(h[i - 1], i)
      <4>1. CASE i <= n
        <5>1. h[i] = g[i] /\ i \in 0 .. n
          BY <4>1
        <5>2. g[i] = IF i = 0 THEN m ELSE F(g[i - 1], i)
          BY <3>1, <5>1
        <5>3. i # 0 => h[i - 1] = g[i - 1]
          BY <4>1
        <5> QED
          BY <5>1, <5>2, <5>3
      <4>2. CASE ~(i <= n)
        <5>1. i = n + 1 /\ h[i] = F(g[n], n + 1) /\ h[n] = g[n] /\ i - 1 = n /\ i # 0
          BY <4>2
        <5> QED
          BY <5>1
      <4> QED
        BY <4>1, <4>2
    <3>3. Is(0 .. n + 1, h)
      BY <3>2
    <3> HIDE DEF h
    <3>4. \E q : Is(0 .. n + 1, q)
      BY <3>3, Zenon
    <3> QED
      BY <3>4
  <2>3. \A n \in Nat : n \in Done
    <3> HIDE DEF Done
    <3> QED
      BY <2>1, <2>2, NumberInduction
  <2> QED
    BY <2>3
<1>3. ASSUME NEW n \in Nat PROVE Up(n + 1)[n] = Up(n)[n]
  <2> DEFINE Matching == {i \in Nat : i <= n => Up(n + 1)[i] = Up(n)[i]}
  <2>1. \A i \in 0 .. n : Up(n)[i] = IF i = 0 THEN m ELSE F(Up(n)[i - 1], i)
    <3>1. Is(0 .. n, Up(n))
      BY <1>2
    <3> HIDE DEF Up
    <3> QED
      BY <3>1
  <2>2. \A i \in 0 .. n + 1 : Up(n + 1)[i] = IF i = 0 THEN m ELSE F(Up(n + 1)[i - 1], i)
    <3>1. Is(0 .. n + 1, Up(n + 1))
      <4>1. n + 1 \in Nat
        OBVIOUS
      <4> HIDE DEF Is, Up
      <4> QED
        BY <1>2, <4>1
    <3> HIDE DEF Up
    <3> QED
      BY <3>1
  <2> HIDE DEF Up
  <2>3. 0 \in Matching
    BY <2>1, <2>2
  <2>4. ASSUME NEW i \in Nat, i \in Matching PROVE i + 1 \in Matching
    <3> SUFFICES ASSUME i + 1 <= n PROVE Up(n + 1)[i + 1] = Up(n)[i + 1]
      OBVIOUS
    <3>1. Up(n)[i + 1] = F(Up(n)[i], i + 1) /\ Up(n + 1)[i + 1] = F(Up(n + 1)[i], i + 1)
      BY <2>1, <2>2
    <3> QED
      BY <2>4, <3>1
  <2>5. \A i \in Nat : i \in Matching
    <3> HIDE DEF Matching
    <3> QED
      BY <2>3, <2>4, NumberInduction
  <2> QED
    BY <2>5
<1>4. ASSUME NEW n \in Nat PROVE all[n] = IF n = 0 THEN m ELSE F(all[n - 1], n)
  <2>1. Up(n)[n] = IF n = 0 THEN m ELSE F(Up(n)[n - 1], n)
    <3>1. Is(0 .. n, Up(n))
      BY <1>2
    <3> HIDE DEF Up
    <3> QED
      BY <3>1
  <2>2. n # 0 => Up(n)[n - 1] = Up(n - 1)[n - 1]
    <3>1. n # 0 => n - 1 \in Nat /\ (n - 1) + 1 = n
      OBVIOUS
    <3> HIDE DEF Up
    <3> QED
      BY <1>3, <3>1
  <2>3. all[n] = Up(n)[n] /\ (n # 0 => all[n - 1] = Up(n - 1)[n - 1])
    <3> HIDE DEF Up
    <3> QED
      OBVIOUS
  <2> HIDE DEF Up, all
  <2> QED
    BY <2>1, <2>2, <2>3
<1>5. Is(Nat, all)
  <2> HIDE DEF Up
  <2> QED
    BY <1>4
<1> DEFINE g == InTurn
<1>6. Is(Nat, g)
  <2> HIDE DEF all
  <2> QED
    BY <1>1, <1>5
<1> HIDE DEF g
<1>7. g[0] = m /\ \A n \in Nat : g[n + 1] = F(g[n], n + 1)
  BY <1>6
<1> QED
  BY <1>7 DEF g, F, m, InTurnIs

LEMMA InTurnStepsNext == InTurnIs(InTurn)'
BY InTurnSteps, PTL

(* A memory has the arrays and the elements of the program. *)
Shaped(m) == m = [v \in Arrays |-> [e \in Elements |-> m[v][e]]]

(* The work-item x sets the element e of v by s. *)
Sets(s, x, v, e) == s.to = v /\ x \in DOMAIN s.at /\ s.at[x] = e

(* A statement that all work-items execute, and several of them. *)
LEMMA StatementEffect ==
  ASSUME NEW m, Shaped(m), NEW s, ~s.atomic, NEW captured
  PROVE  LET after == ExecuteStatement(m, s, captured)
         IN  /\ Shaped(after)
             /\ \A v \in Arrays, e \in Elements :
                  /\ (\A x : ~Sets(s, x, v, e)) => after[v][e] = m[v][e]
                  /\ v # s.to => after[v] = m[v]
                  /\ v = s.to => after[v][e] = Changed(m, s, e, captured)
<1> DEFINE after == ExecuteStatement(m, s, captured)
           new   == [e \in DOMAIN m[s.to] |-> Changed(m, s, e, captured)]
<1>1. after = [m EXCEPT ![s.to] = new]
  BY DEF ExecuteStatement
<1>2. DOMAIN m = Arrays /\ \A v \in Arrays : m[v] = [e \in Elements |-> m[v][e]]
  BY DEF Shaped
<1>3. s.to \in Arrays => new = [e \in Elements |-> Changed(m, s, e, captured)]
  <2>1. s.to \in Arrays => DOMAIN m[s.to] = Elements
    BY <1>2
  <2> QED
    BY <2>1, Zenon
<1> HIDE DEF new, after
<1>4. /\ DOMAIN after = Arrays
      /\ \A v \in Arrays : v # s.to => after[v] = m[v]
      /\ s.to \in Arrays => after[s.to] = new
  BY <1>1, <1>2
<1>5. after = [v \in Arrays |-> after[v]]
  BY <1>1, <1>2
<1>6. ASSUME NEW v \in Arrays PROVE after[v] = [e \in Elements |-> after[v][e]]
  <2>1. CASE v # s.to
    BY <1>2, <1>4, <2>1
  <2>2. CASE v = s.to
    BY <1>3, <1>4, <2>2
  <2> QED
    BY <2>1, <2>2
<1>7. Shaped(after)
  BY <1>5, <1>6, Zenon DEF Shaped
<1>8. ASSUME NEW e \in Elements, s.to \in Arrays PROVE after[s.to][e] = Changed(m, s, e, captured)
  BY <1>3, <1>4, <1>8
<1>9. ASSUME NEW v \in Arrays, NEW e \in Elements, \A x : ~Sets(s, x, v, e)
      PROVE  after[v][e] = m[v][e]
  <2>1. CASE v # s.to
    BY <1>4, <2>1
  <2>2. CASE v = s.to
    <3>1. Writers(s, e) = {}
      BY <1>9, <2>2 DEF Writers, Sets
    <3>2. Changed(m, s, e, captured) = m[s.to][e]
      BY <3>1, Zenon DEF Changed
    <3> QED
      BY <1>8, <2>2, <3>2
  <2> QED
    BY <2>1, <2>2
<1> QED
  BY <1>4, <1>7, <1>8, <1>9 DEF after

LEMMA ExecutedShaped ==
  ASSUME NEW m, Shaped(m), NEW body, NEW captured, NEW q \in Nat, \A b \in 1 .. q : ~body[b].atomic
  PROVE  \A n \in 0 .. q : Shaped(Executed(m, body, captured)[n])
<1> DEFINE after == Executed(m, body, captured)
<1>1. after[0] = m /\ \A n \in Nat : after[n + 1] = ExecuteStatement(after[n], body[n + 1], captured)
  BY ExecutedSteps
<1> HIDE DEF after
<1> DEFINE Done == {n \in Nat : n <= q => Shaped(after[n])}
<1>2. 0 \in Done
  BY <1>1
<1>3. ASSUME NEW n \in Nat, n \in Done PROVE n + 1 \in Done
  <2> SUFFICES ASSUME n + 1 <= q PROVE Shaped(after[n + 1])
    OBVIOUS
  <2> DEFINE s == body[n + 1]
             now == after[n]
  <2>1. Shaped(now) /\ ~s.atomic /\ after[n + 1] = ExecuteStatement(now, s, captured)
    BY <1>1, <1>3
  <2> HIDE DEF s, now
  <2>2. Shaped(ExecuteStatement(now, s, captured))
    BY <2>1, StatementEffect
  <2> QED
    BY <2>1, <2>2
<1>4. \A n \in Nat : n \in Done
  <2> HIDE DEF Done
  <2> QED
    BY <1>2, <1>3, NumberInduction
<1> QED
  BY <1>4 DEF after

(* The texts of a program and of its kernels and loops. *)
Text ==
  /\ Sequence(program)
  /\ \A k \in Commands : Sequence(Body(k)) /\ \A b \in DOMAIN Body(k) : ~Body(k)[b].atomic

LEMMA Texts ==
  ASSUME Text
  PROVE  /\ Len(program) \in Nat /\ Commands = 1 .. Len(program)
         /\ \A k \in Commands : Len(Body(k)) \in Nat /\ DOMAIN Body(k) = 1 .. Len(Body(k))
<1>1. ASSUME NEW s, Sequence(s) PROVE Len(s) \in Nat /\ DOMAIN s = 1 .. Len(s)
  <2>1. PICK S : s \in Seq(S)
    BY <1>1 DEF Sequence
  <2> QED
    BY <2>1
<1> QED
  BY <1>1 DEF Text, Commands

(* Memory after p statements of the command k, and all before.              *)
Stage(k, p) == Executed(InTurn[k - 1], Body(k), taken[k])[p]

LEMMA Stages ==
  ASSUME NEW k
  PROVE  /\ Stage(k, 0) = InTurn[k - 1]
         /\ \A p \in Nat : Stage(k, p + 1) = ExecuteStatement(Stage(k, p), Body(k)[p + 1], taken[k])
         /\ k \in Nat \ {0} => InTurn[k] = Stage(k, Len(Body(k)))
<1>1. /\ Stage(k, 0) = InTurn[k - 1]
      /\ \A p \in Nat : Stage(k, p + 1) = ExecuteStatement(Stage(k, p), Body(k)[p + 1], taken[k])
  <2> DEFINE m == InTurn[k - 1]
             b == Body(k)
             c == taken[k]
  <2>1. \A p : Stage(k, p) = Executed(m, b, c)[p]
    BY DEF Stage
  <2> HIDE DEF m, b, c
  <2>2. /\ Executed(m, b, c)[0] = m
        /\ \A p \in Nat : Executed(m, b, c)[p + 1] = ExecuteStatement(Executed(m, b, c)[p], b[p + 1], c)
    BY ExecutedSteps
  <2>3. Stage(k, 0) = m /\ \A p \in Nat : Stage(k, p + 1) = ExecuteStatement(Stage(k, p), b[p + 1], c)
    BY <2>1, <2>2
  <2> QED
    BY <2>3 DEF m, b, c
<1>2. ASSUME k \in Nat \ {0} PROVE InTurn[k] = Stage(k, Len(Body(k)))
  <2>1. k - 1 \in Nat /\ (k - 1) + 1 = k
    BY <1>2
  <2>2. InTurn[(k - 1) + 1] = ExecuteAll(InTurn[k - 1], Body((k - 1) + 1), taken[(k - 1) + 1])
    BY <2>1, InTurnSteps, Zenon DEF InTurnIs
  <2> QED
    BY <2>1, <2>2, Zenon DEF ExecuteAll, Stage
<1> QED
  BY <1>1, <1>2

LEMMA MemoryShaped == Shaped(Memory)
BY DEF Shaped, Memory

LEMMA StagesShaped ==
  ASSUME Text
  PROVE  /\ \A k \in 0 .. Len(program) : Shaped(InTurn[k])
         /\ \A k \in Commands : \A p \in 0 .. Len(Body(k)) : Shaped(Stage(k, p))
<1>1. ASSUME NEW k \in Commands, Shaped(InTurn[k - 1])
      PROVE  \A p \in 0 .. Len(Body(k)) : Shaped(Stage(k, p))
  <2> DEFINE L == Len(Body(k))
             m == InTurn[k - 1]
             body == Body(k)
             c == taken[k]
  <2>1. L \in Nat /\ Shaped(m) /\ \A b \in 1 .. L : ~body[b].atomic
    BY <1>1, Texts DEF Text
  <2>2. \A p : Stage(k, p) = Executed(m, body, c)[p]
    BY DEF Stage
  <2> HIDE DEF L, m, body, c
  <2>3. \A p \in 0 .. L : Shaped(Executed(m, body, c)[p])
    BY <2>1, ExecutedShaped
  <2> QED
    BY <2>2, <2>3 DEF L
<1> DEFINE N == Len(program)
           Done == {k \in Nat : k <= N => Shaped(InTurn[k])}
<1>2. N \in Nat /\ Commands = 1 .. N /\ \A k \in Commands : Len(Body(k)) \in Nat
  BY Texts
<1>3. 0 \in Done
  <2>1. InTurn[0] = Memory
    BY InTurnSteps DEF InTurnIs
  <2> QED
    BY <2>1, MemoryShaped
<1>4. ASSUME NEW k \in Nat, k \in Done PROVE k + 1 \in Done
  <2> SUFFICES ASSUME k + 1 <= N PROVE Shaped(InTurn[k + 1])
    OBVIOUS
  <2>1. k + 1 \in Commands /\ (k + 1) - 1 = k /\ k + 1 \in Nat \ {0}
    BY <1>2
  <2>2. Shaped(InTurn[k])
    BY <1>2, <1>4
  <2>3. Shaped(Stage(k + 1, Len(Body(k + 1))))
    BY <1>1, <1>2, <2>1, <2>2
  <2> QED
    BY <2>1, <2>3, Stages, Zenon
<1>5. \A k \in Nat : k \in Done
  <2> HIDE DEF Done
  <2> QED
    BY <1>3, <1>4, NumberInduction
<1>6. ASSUME NEW k \in Commands PROVE \A p \in 0 .. Len(Body(k)) : Shaped(Stage(k, p))
  <2>1. k - 1 \in Nat /\ k - 1 <= N
    BY <1>2
  <2> QED
    BY <1>1, <1>5, <2>1
<1> QED
  BY <1>2, <1>5, <1>6

(* No statement from p to q sets the element. *)
Unset(body, p, q, v, e) == \A b \in p + 1 .. q : \A x : ~Sets(body[b], x, v, e)

LEMMA KeptExecuted ==
  ASSUME NEW m, Shaped(m), NEW body, NEW captured,
         NEW q \in Nat, NEW p \in 0 .. q, \A b \in 1 .. q : ~body[b].atomic, NEW v \in Arrays, NEW e \in Elements,
         Unset(body, p, q, v, e)
  PROVE  Executed(m, body, captured)[q][v][e] = Executed(m, body, captured)[p][v][e]
<1> DEFINE after == Executed(m, body, captured)
<1>1. after[0] = m /\ \A n \in Nat : after[n + 1] = ExecuteStatement(after[n], body[n + 1], captured)
  BY ExecutedSteps
<1>2. \A n \in 0 .. q : Shaped(after[n])
  BY ExecutedShaped
<1> HIDE DEF after
<1> DEFINE Holding == {n \in Nat : p <= n /\ n <= q => after[n][v][e] = after[p][v][e]}
<1>5. 0 \in Holding
  OBVIOUS
<1>6. ASSUME NEW n \in Nat, n \in Holding PROVE n + 1 \in Holding
  <2> SUFFICES ASSUME p <= n + 1, n + 1 <= q PROVE after[n + 1][v][e] = after[p][v][e]
    OBVIOUS
  <2>1. CASE p = n + 1
    BY <2>1
  <2>2. CASE p <= n
    <3> DEFINE s == body[n + 1]
               now == after[n]
    <3>1. /\ Shaped(now) /\ ~s.atomic /\ after[n + 1] = ExecuteStatement(now, s, captured)
          /\ \A x : ~Sets(s, x, v, e)
      BY <1>1, <1>2, <2>2 DEF Unset
    <3>2. now[v][e] = after[p][v][e]
      BY <1>6, <2>2
    <3> HIDE DEF s, now
    <3>3. ExecuteStatement(now, s, captured)[v][e] = now[v][e]
      BY <3>1, StatementEffect
    <3> QED
      BY <3>1, <3>2, <3>3
  <2> QED
    BY <2>1, <2>2
<1>7. \A n \in Nat : n \in Holding
  <2> HIDE DEF Holding
  <2> QED
    BY <1>5, <1>6, NumberInduction
<1>8. after[q][v][e] = after[p][v][e]
  BY <1>7
<1> QED
  BY <1>8 DEF after

(* The same in the history: within a command, across commands, in general. *)
LEMMA KeptWithin ==
  ASSUME Text, NEW k \in Commands, NEW p \in 0 .. Len(Body(k)), NEW q \in p .. Len(Body(k)),
         NEW v \in Arrays, NEW e \in Elements,
         \A b \in p + 1 .. q : \A x : ~Sets(Body(k)[b], x, v, e)
  PROVE  Stage(k, q)[v][e] = Stage(k, p)[v][e]
<1> DEFINE L == Len(Body(k))
           m == InTurn[k - 1]
           body == Body(k)
           c == taken[k]
<1>1. L \in Nat /\ DOMAIN body = 1 .. L /\ \A b \in DOMAIN body : ~body[b].atomic
  BY Texts DEF Text
<1>2. Shaped(m)
  <2>1. k - 1 \in 0 .. Len(program)
    BY Texts
  <2> QED
    BY <2>1, StagesShaped
<1>3. Stage(k, p) = Executed(m, body, c)[p] /\ Stage(k, q) = Executed(m, body, c)[q]
  BY DEF Stage
<1>4. Unset(body, p, q, v, e)
  BY DEF Unset
<1> HIDE DEF L, m, body, c
<1>5. q \in Nat /\ p \in 0 .. q /\ \A b \in 1 .. q : ~body[b].atomic
  BY <1>1 DEF L
<1>6. Executed(m, body, c)[q][v][e] = Executed(m, body, c)[p][v][e]
  BY <1>1, <1>2, <1>4, <1>5, KeptExecuted
<1> QED
  BY <1>3, <1>6

LEMMA KeptAcross ==
  ASSUME Text, NEW i \in 0 .. Len(program), NEW k \in i .. Len(program),
         NEW v \in Arrays, NEW e \in Elements,
         \A j \in i + 1 .. k : \A b \in DOMAIN Body(j) : \A x : ~Sets(Body(j)[b], x, v, e)
  PROVE  InTurn[k][v][e] = InTurn[i][v][e]
<1> DEFINE N == Len(program)
           Done == {n \in Nat : i <= n /\ n <= k => InTurn[n][v][e] = InTurn[i][v][e]}
<1>1. N \in Nat /\ Commands = 1 .. N
  BY Texts
<1>2. 0 \in Done
  OBVIOUS
<1>3. ASSUME NEW n \in Nat, n \in Done PROVE n + 1 \in Done
  <2> SUFFICES ASSUME i <= n + 1, n + 1 <= k PROVE InTurn[n + 1][v][e] = InTurn[i][v][e]
    OBVIOUS
  <2>1. CASE i = n + 1
    BY <2>1
  <2>2. CASE i <= n
    <3> DEFINE j == n + 1
               L == Len(Body(j))
    <3>1. j \in Commands /\ j \in i + 1 .. k /\ j \in Nat \ {0} /\ j - 1 = n
      BY <1>1, <2>2
    <3>2. L \in Nat /\ DOMAIN Body(j) = 1 .. L
      BY <3>1, Texts
    <3>3. InTurn[j] = Stage(j, L) /\ Stage(j, 0) = InTurn[n]
      BY <3>1, Stages
    <3>4. \A b \in DOMAIN Body(j) : \A x : ~Sets(Body(j)[b], x, v, e)
      BY <3>1
    <3> HIDE DEF j
    <3>5. Stage(j, L)[v][e] = Stage(j, 0)[v][e]
      BY <3>1, <3>2, <3>4, KeptWithin
    <3>6. InTurn[n][v][e] = InTurn[i][v][e]
      BY <1>3, <2>2, <3>1
    <3> QED
      BY <3>3, <3>5, <3>6 DEF j
  <2> QED
    BY <2>1, <2>2
<1>4. \A n \in Nat : n \in Done
  <2> HIDE DEF Done
  <2> QED
    BY <1>2, <1>3, NumberInduction
<1> QED
  BY <1>1, <1>4

(* Places in the history: after p statements of the command k; none of the  *)
(* command after the last has been executed.                                *)
Place(k, p) ==
  \/ k \in Commands /\ p \in 0 .. Len(Body(k))
  \/ k = Len(program) + 1 /\ p = 0

NotAfter(j, b, k, p) == j < k \/ (j = k /\ b <= p)

(* An element keeps its value while no statement sets it. *)
ElementsKeep ==
  \A k, p, l, q : Place(k, p) /\ Place(l, q) /\ NotAfter(k, p, l, q) =>
    \A v \in Arrays, e \in Elements :
      (\A j \in Commands : \A b \in DOMAIN Body(j) : \A x :
         Sets(Body(j)[b], x, v, e) => NotAfter(j, b, k, p) \/ ~NotAfter(j, b, l, q)) =>
      Stage(l, q)[v][e] = Stage(k, p)[v][e]

LEMMA Kept == Text => ElementsKeep
<1> SUFFICES ASSUME Text, NEW k, NEW p, NEW l, NEW q, Place(k, p), Place(l, q), NotAfter(k, p, l, q),
                    NEW v \in Arrays, NEW e \in Elements,
                    \A j \in Commands : \A b \in DOMAIN Body(j) : \A x :
                      Sets(Body(j)[b], x, v, e) => NotAfter(j, b, k, p) \/ ~NotAfter(j, b, l, q)
             PROVE  Stage(l, q)[v][e] = Stage(k, p)[v][e]
  BY DEF ElementsKeep
<1> DEFINE N == Len(program)
<1>1. N \in Nat /\ Commands = 1 .. N
      /\ \A j \in Commands : Len(Body(j)) \in Nat /\ DOMAIN Body(j) = 1 .. Len(Body(j))
  BY Texts
<1>2. ASSUME NEW j \in Commands, NEW a \in 0 .. Len(Body(j)), NEW c \in a .. Len(Body(j)),
             \A b \in a + 1 .. c : ~NotAfter(j, b, k, p) /\ NotAfter(j, b, l, q)
      PROVE  Stage(j, c)[v][e] = Stage(j, a)[v][e]
  <2>1. ASSUME NEW b \in a + 1 .. c, NEW x PROVE ~Sets(Body(j)[b], x, v, e)
    <3>1. b \in DOMAIN Body(j)
      BY <1>1
    <3> QED
      BY <1>2, <3>1
  <2> QED
    BY <2>1, KeptWithin
<1>3. k \in 1 .. N + 1 /\ l \in 1 .. N + 1 /\ p \in Nat /\ q \in Nat
  BY <1>1 DEF Place
<1>4. CASE k = l /\ k \in Commands
  <2>1. p \in 0 .. Len(Body(k)) /\ q \in p .. Len(Body(k))
    BY <1>1, <1>3, <1>4 DEF Place, NotAfter
  <2>2. \A b \in p + 1 .. q : ~NotAfter(k, b, k, p) /\ NotAfter(k, b, l, q)
    BY <1>3, <1>4 DEF NotAfter
  <2> QED
    BY <1>2, <1>4, <2>1, <2>2
<1>5. CASE k = l /\ k \notin Commands
  BY <1>1, <1>5 DEF Place
<1>6. CASE k # l
  <2>1. k < l /\ k \in Commands /\ p \in 0 .. Len(Body(k))
    BY <1>1, <1>3, <1>6 DEF Place, NotAfter
  <2> DEFINE L == Len(Body(k))
             i == l - 1
  <2>2. L \in Nat
    BY <1>1, <2>1
  <2>3. Stage(k, L)[v][e] = Stage(k, p)[v][e]
    <3>1. \A b \in p + 1 .. L : ~NotAfter(k, b, k, p) /\ NotAfter(k, b, l, q)
      BY <1>3, <2>1, <2>2 DEF NotAfter
    <3> QED
      BY <1>2, <2>1, <2>2, <3>1
  <2>4. k \in Nat \ {0} /\ i \in k .. N /\ k \in 0 .. N
    BY <1>1, <1>3, <2>1
  <2>5. InTurn[i][v][e] = InTurn[k][v][e]
    <3>1. ASSUME NEW j \in k + 1 .. i, NEW b \in DOMAIN Body(j), NEW x
          PROVE  ~Sets(Body(j)[b], x, v, e)
      <4>1. j \in Commands /\ k < j /\ j < l
        BY <1>1, <1>3, <2>4
      <4> QED
        BY <1>3, <4>1 DEF NotAfter
    <3> HIDE DEF i
    <3> QED
      BY <2>4, <3>1, KeptAcross
  <2>6. InTurn[k] = Stage(k, L) /\ Stage(l, 0) = InTurn[i]
    BY <2>4, Stages
  <2>7. Stage(l, q)[v][e] = Stage(l, 0)[v][e]
    <3>1. CASE l \in Commands
      <4>1. 0 \in 0 .. Len(Body(l)) /\ q \in 0 .. Len(Body(l))
        BY <1>1, <3>1 DEF Place
      <4>2. \A b \in 0 + 1 .. q : ~NotAfter(l, b, k, p) /\ NotAfter(l, b, l, q)
        BY <1>3, <2>1 DEF NotAfter
      <4> QED
        BY <1>2, <3>1, <4>1, <4>2
    <3>2. CASE l \notin Commands
      <4>1. q = 0
        BY <3>2 DEF Place
      <4> QED
        BY <4>1
    <3> QED
      BY <3>1, <3>2
  <2> QED
    BY <2>3, <2>5, <2>6, <2>7
<1> QED
  BY <1>4, <1>5, <1>6

(* A program and its text do not change. *)
LEMMA TextStatic ==
  ASSUME UNCHANGED given
  PROVE  /\ \A k : Body(k)' = Body(k) /\ Statements(k)' = Statements(k)
         /\ Arrays' = Arrays /\ Elements' = Elements /\ Memory' = Memory
         /\ \A k, p : Place(k, p)' = Place(k, p)
         /\ \A m : Shaped(m)' = Shaped(m)
         /\ Text => Text'
<1>1. program' = program /\ name' = name
  BY DEF given
<1>2. Commands' = Commands /\ \A k : IsDevice(k)' = IsDevice(k)
  BY Static, Zenon
<1>3. \A k : Body(k)' = Body(k)
  BY <1>1, <1>2, Zenon DEF Body
<1>4. \A k : Statements(k)' = Statements(k)
  BY <1>1, <1>2, Zenon DEF Statements, HasBody
<1>5. \A k : Reads(k)' = Reads(k) /\ Writes(k)' = Writes(k)
  BY <1>4, Zenon DEF Reads, Writes
<1>6. Arrays' = Arrays
  BY <1>1, <1>2, <1>5, Zenon DEF Arrays
<1>7. Elements' = Elements
  BY <1>1, Zenon DEF Elements
<1>8. Memory' = Memory
  BY <1>6, <1>7, Zenon DEF Memory
<1>9. \A k, p : Place(k, p)' = Place(k, p)
  BY <1>1, <1>2, <1>3, Zenon DEF Place
<1>10. \A m : Shaped(m)' = Shaped(m)
  BY <1>6, <1>7, Zenon DEF Shaped
<1>11. Text => Text'
  BY <1>1, <1>2, <1>3, Zenon DEF Text
<1> QED
  BY <1>3, <1>4, <1>6, <1>7, <1>8, <1>9, <1>10, <1>11, Zenon

(* Kept, of the history after a step. *)
LEMMA KeptNext ==
  ASSUME Text, UNCHANGED given, NEW k, NEW p, NEW l, NEW q, Place(k, p), Place(l, q), NotAfter(k, p, l, q),
         NEW v \in Arrays, NEW e \in Elements,
         \A j \in Commands : \A b \in DOMAIN Body(j) : \A x :
           Sets(Body(j)[b], x, v, e) => NotAfter(j, b, k, p) \/ ~NotAfter(j, b, l, q)
  PROVE  Stage(l, q)'[v][e] = Stage(k, p)'[v][e]
<1>1. Text' => ElementsKeep'
  BY Kept, PTL
<1>2. ElementsKeep'
  BY <1>1, TextStatic
<1>3. /\ Commands' = Commands /\ Arrays' = Arrays /\ Elements' = Elements
      /\ \A j : Body(j)' = Body(j)
      /\ Place(k, p)' /\ Place(l, q)'
  BY Static, TextStatic
<1>4. \A h, r, i, s : Place(h, r)' /\ Place(i, s)' /\ NotAfter(h, r, i, s) =>
        \A w \in Arrays', f \in Elements' :
          (\A j \in Commands' : \A b \in (DOMAIN Body(j))' : \A x :
             Sets(Body(j)'[b], x, w, f) => NotAfter(j, b, h, r) \/ ~NotAfter(j, b, i, s)) =>
          Stage(i, s)'[w][f] = Stage(h, r)'[w][f]
  BY <1>2 DEF ElementsKeep, NotAfter, Sets
<1>5. \A w \in Arrays', f \in Elements' :
          (\A j \in Commands' : \A b \in (DOMAIN Body(j))' : \A x :
             Sets(Body(j)'[b], x, w, f) => NotAfter(j, b, k, p) \/ ~NotAfter(j, b, l, q)) =>
          Stage(l, q)'[w][f] = Stage(k, p)'[w][f]
  <2>1. Place(k, p)' /\ Place(l, q)' /\ NotAfter(k, p, l, q)
    BY <1>3
  <2> QED
    BY <2>1, <1>4
<1>6. \A j \in Commands' : \A b \in (DOMAIN Body(j))' : \A x :
        Sets(Body(j)'[b], x, v, e) => NotAfter(j, b, k, p) \/ ~NotAfter(j, b, l, q)
  <2> SUFFICES ASSUME NEW j \in Commands', NEW b \in (DOMAIN Body(j))', NEW x, Sets(Body(j)'[b], x, v, e)
               PROVE  NotAfter(j, b, k, p) \/ ~NotAfter(j, b, l, q)
    OBVIOUS
  <2>1. j \in Commands /\ b \in DOMAIN Body(j) /\ Body(j)'[b] = Body(j)[b]
    BY <1>3
  <2> QED
    BY <2>1
<1> QED
  BY <1>3, <1>5, <1>6

(* Places that the host has come to. *)
Reached(k, p) == Place(k, p) /\ (k < next \/ (k = next /\ p = 0))

(* A step changes no history before what it captures. *)
LEMMA StagesStay ==
  ASSUME Text, UNCHANGED given, NEW end \in 1 .. Len(program) + 1,
         \A j \in Commands : j < end => taken'[j] = taken[j]
  PROVE  \A k, p : Place(k, p) /\ (k < end \/ (k = end /\ p = 0)) => Stage(k, p)' = Stage(k, p)
<1> DEFINE Done == {k \in Nat : k < end => InTurn'[k] = InTurn[k]}
<1>1. /\ \A k : Body(k)' = Body(k)
      /\ Memory' = Memory
  BY TextStatic
<1>2. /\ InTurn[0] = Memory
      /\ \A k \in Nat : InTurn[k + 1] = ExecuteAll(InTurn[k], Body(k + 1), taken[k + 1])
  BY InTurnSteps DEF InTurnIs
<1>3. /\ InTurn'[0] = Memory'
      /\ \A k \in Nat : InTurn'[k + 1] = ExecuteAll(InTurn'[k], Body(k + 1)', taken'[k + 1])
  BY InTurnStepsNext DEF InTurnIs
<1>4. Len(program) \in Nat /\ Commands = 1 .. Len(program)
  BY Texts
<1>5. 0 \in Done
  BY <1>1, <1>2, <1>3
<1>6. ASSUME NEW k \in Nat, k \in Done PROVE k + 1 \in Done
  <2> DEFINE n == k + 1
  <2> SUFFICES ASSUME n < end PROVE InTurn'[n] = InTurn[n]
    OBVIOUS
  <2>1. n \in Commands /\ InTurn'[k] = InTurn[k]
    BY <1>4, <1>6
  <2>2. InTurn[n] = ExecuteAll(InTurn[k], Body(n), taken[n]) /\ InTurn'[n] = ExecuteAll(InTurn'[k], Body(n)', taken'[n])
    BY <1>2, <1>3
  <2> HIDE DEF n
  <2>3. Body(n)' = Body(n) /\ taken'[n] = taken[n]
    BY <1>1, <2>1
  <2> QED
    BY <2>1, <2>2, <2>3, Zenon
<1>7. \A k \in Nat : k \in Done
  <2> HIDE DEF Done
  <2> QED
    BY <1>5, <1>6, NumberInduction
<1> SUFFICES ASSUME NEW k, NEW p, Place(k, p), k < end \/ (k = end /\ p = 0)
             PROVE  Stage(k, p)' = Stage(k, p)
  OBVIOUS
<1>8. k \in Nat /\ k - 1 \in Nat /\ k - 1 < end
  BY <1>4 DEF Place
<1>9. InTurn'[k - 1] = InTurn[k - 1]
  BY <1>7, <1>8
<1>10. CASE k < end
  <2>1. k \in Commands
    BY <1>4, <1>10 DEF Place
  <2>2. taken'[k] = taken[k]
    BY <1>10, <2>1
  <2> QED
    BY <1>1, <1>9, <2>2, Zenon DEF Stage
<1>11. CASE k = end /\ p = 0
  <2>1. Stage(k, 0) = InTurn[k - 1]
    BY Stages
  <2>2. Stage(k, 0)' = Executed(InTurn'[k - 1], Body(k)', taken'[k])[0]
    BY DEF Stage
  <2>3. Stage(k, 0)' = InTurn'[k - 1]
    BY <2>2, ExecutedSteps
  <2> QED
    BY <1>9, <1>11, <2>1, <2>3
<1> QED
  BY <1>10, <1>11

------------------------------------------------------------------------------
(* What is executed before and after a command that runs.                  *)

HasExecuted(j, b, x) == j < next /\ (IsDevice(j) => b <= items[j][x])

TextOrders == CommandsOrdered /\ LoopsOrdered

LEMMA Setters ==
  ASSUME NEW j, NEW b \in DOMAIN Body(j), NEW x, NEW v, NEW e, Sets(Body(j)[b], x, v, e)
  PROVE  /\ v \in Writes(j) /\ Body(j)[b] \in Statements(j)
         /\ IsDevice(j) => x \in Grid(j)
         /\ IsDevice(j) \/ program[j].op = "host"
<1>1. Body(j) # <<>>
  BY DEF Sets
<1>2. (IsDevice(j) \/ program[j].op = "host") /\ Body(j) = program[j].body
  BY <1>1 DEF Body
<1>3. HasBody(j) /\ Statements(j) = Range(program[j].body)
  BY <1>2 DEF HasBody, Statements
<1>4. Body(j)[b] \in Statements(j)
  BY <1>2, <1>3 DEF Range
<1> HIDE DEF Statements
<1>5. v \in Writes(j)
  BY <1>4 DEF Writes, Sets
<1>6. IsDevice(j) => x \in Grid(j)
  BY <1>4 DEF Grid, Sets
<1> QED
  BY <1>2, <1>4, <1>5, <1>6

(* With a command that starts, or has, what conflicts with it and comes     *)
(* before is finished.                                                     *)
LEMMA ConflictsFinished ==
  ASSUME Inv, CommandsOrdered, NEW k \in Enqueued, \A j \in StartsAfter(k) : Finished(j),
         NEW j \in Devices, j < k, Conflict(j, k) \/ Conflict(k, j)
  PROVE  Finished(j)
<1>1. Commands \subseteq Nat /\ next \in Nat
  BY Numbers
<1>2. k \in Devices /\ k \in Commands /\ k \in Nat /\ k < next
  BY <1>1 DEF Enqueued, Devices
<1>3. \A i \in HostWaited(k) : i \in Devices /\ i < next /\ Finished(i)
  <2>1. (k \in Commands /\ k < next) \/ (k = next /\ ~Blocked)
    BY <1>2, Zenon
  <2> QED
    BY <1>2, <2>1, WaitedIsFinished, Zenon
<1>4. \A i \in StartsAfter(k) : i \in Devices /\ i < next /\ Finished(i)
  BY <1>1, <1>2 DEF StartsAfter, Devices
<1> DEFINE B == HostWaited(k) \cup StartsAfter(k)
<1>5. \A i \in B : i \in Devices /\ i < next /\ Finished(i)
  BY <1>3, <1>4
<1>6. j \in FinishedWith(B)
  BY <1>2, Zenon DEF CommandsOrdered
<1> HIDE DEF B
<1> QED
  BY <1>5, <1>6, FinishedTogether

(* What sets an element that a running command touches has been executed if *)
(* it comes before the command, and has not if it comes after it.          *)
LEMMA EarlierExecuted ==
  ASSUME Inv, Text, CommandsOrdered, NEW k \in Enqueued, MayStart(k),
         NEW j \in Commands, j < k, NEW b \in DOMAIN Body(j), NEW x, NEW v, NEW e,
         Sets(Body(j)[b], x, v, e), v \in Reads(k) \cup Writes(k)
  PROVE  HasExecuted(j, b, x)
<1>1. Commands \subseteq Nat /\ next \in Nat
  BY Numbers
<1>2. k \in Commands /\ IsDevice(k) /\ k < next /\ j < next
  BY <1>1 DEF Enqueued
<1>3. CASE IsDevice(j)
  <2>1. j \in Devices /\ Conflict(j, k) /\ x \in Grid(j)
    BY <1>3, Setters DEF Devices, Conflict
  <2>2. \A i \in StartsAfter(k) : Finished(i)
    <3> TAKE i \in StartsAfter(k)
    <3>1. i \in Commands /\ IsDevice(i) /\ i < k /\ Before(i, k)
      BY DEF StartsAfter, Devices
    <3>2. i \in Enqueued
      BY <1>1, <1>2, <3>1 DEF Enqueued
    <3> QED
      BY <3>1, <3>2, Zenon DEF MayStart
  <2>3. Finished(j)
    BY <2>1, <2>2, ConflictsFinished
  <2>4. items[j][x] = Len(program[j].body) /\ program[j].body = Body(j)
    BY <1>3, <2>1, <2>3 DEF Finished, Body
  <2>5. b <= Len(Body(j))
    BY Texts
  <2> QED
    BY <1>2, <2>4, <2>5 DEF HasExecuted
<1>4. CASE ~IsDevice(j)
  BY <1>2, <1>4 DEF HasExecuted
<1> QED
  BY <1>3, <1>4

LEMMA LaterNotExecuted ==
  ASSUME Inv, Text, TextOrders, NEW k \in Enqueued, ~Finished(k),
         NEW j \in Commands, k < j, NEW b \in DOMAIN Body(j), NEW x, NEW v, NEW e,
         Sets(Body(j)[b], x, v, e), v \in Reads(k) \cup Writes(k)
  PROVE  ~HasExecuted(j, b, x)
<1> SUFFICES ASSUME HasExecuted(j, b, x) PROVE FALSE
  OBVIOUS
<1>1. Commands \subseteq Nat /\ next \in Nat
  BY Numbers
<1>2. k \in Commands /\ IsDevice(k) /\ k \in Devices /\ j < next /\ j \in Nat
  BY <1>1 DEF Enqueued, Devices, HasExecuted
<1>3. v \in Writes(j)
  BY Setters
<1>4. CASE IsDevice(j)
  <2>1. j \in Enqueued /\ j \in Devices /\ x \in Grid(j)
    BY <1>2, <1>4, Setters DEF Enqueued, Devices
  <2>2. b \in Nat \ {0} /\ b <= items[j][x]
    BY <1>4, Texts DEF HasExecuted
  <2>3. items[j][x] \in Nat
    BY <2>1 DEF Inv, Control
  <2>4. Started(j)
    BY <2>1, <2>2, <2>3 DEF Started
  <2>5. \A i \in StartsAfter(j) : Finished(i)
    BY <2>1, <2>4 DEF Inv, StartedInOrder
  <2>6. Conflict(j, k)
    BY <1>3 DEF Conflict
  <2> QED
    BY <1>2, <2>1, <2>5, <2>6, ConflictsFinished DEF TextOrders
<1>5. CASE ~IsDevice(j)
  <2>1. program[j].op = "host"
    BY <1>5, Setters
  <2>2. HostConflict(k, j)
    BY <1>3, <2>1 DEF HostConflict, HostSets
  <2>3. k \in FinishedWith(HostWaited(j))
    BY <1>2, <2>1, <2>2, Zenon DEF TextOrders, LoopsOrdered
  <2>4. \A i \in HostWaited(j) : i \in Devices /\ i < next /\ Finished(i)
    BY <1>2, WaitedIsFinished
  <2> QED
    BY <2>3, <2>4, FinishedTogether
<1> QED
  BY <1>4, <1>5

(* All statements up to the place have been executed that set the element,  *)
(* and none after it.                                                      *)
Settled(v, e, k, p) ==
  \A j \in Commands : \A b \in DOMAIN Body(j) : \A x :
    Sets(Body(j)[b], x, v, e) => (HasExecuted(j, b, x) <=> NotAfter(j, b, k, p))

(* Then it holds what it holds at that place in the sequential history.     *)
Followed ==
  \A k, p : Reached(k, p) =>
    \A v \in Arrays, e \in Elements : Settled(v, e, k, p) => mem[v][e] = Stage(k, p)[v][e]

AllInside == \A k \in Devices : Inside(k)

(* One of two work-items that is at a statement n and one that is not past, *)
(* or past, a statement by which they would touch the same element.        *)
LEMMA ItemsInTurn ==
  ASSUME Inv, Text, Kernels, BarriersMet, NEW k \in Enqueued, NEW x \in Grid(k), MayExecute(k, x),
         NEW y \in Grid(k), x # y, NEW b \in DOMAIN Body(k),
         NEW w, w \in Written(Body(k)[b], y), w \in Touched(mem, Upcoming(k, x), x)
  PROVE  /\ b # items[k][x] + 1
         /\ b <= items[k][y] <=> b <= items[k][x]
<1> DEFINE body == Body(k)
           a == items[k][x]
           c == items[k][y]
           n == a + 1
<1>1. k \in Commands /\ IsDevice(k) /\ a \in Nat /\ c \in Nat
  BY DEF Enqueued, Inv, Control
<1>2. body = program[k].body /\ ItemsApart(body)
  BY <1>1 DEF Kernels, Kernel, Body
<1>3. Len(body) \in Nat /\ DOMAIN body = 1 .. Len(body) /\ \A i \in DOMAIN body : ~body[i].atomic
  BY <1>1, Texts DEF Text
<1>4. a < Len(body) /\ (body[n].synced => c >= a) /\ Upcoming(k, x) = body[n]
  BY <1>2 DEF MayExecute, Upcoming
<1>5. \A i \in Nat : /\ i < a /\ body[i + 1].synced => i <= c
                     /\ i < c /\ body[i + 1].synced => i <= a
  BY <1>1, <1>2 DEF BarriersMet
<1>6. b \in Nat \ {0} /\ b <= Len(body) /\ n \in DOMAIN body
  BY <1>1, <1>3, <1>4
<1>7. w \in Written(body[b], y) /\ w \in Touched(mem, body[n], x)
  BY <1>4
<1>8. ~Together(body, n, b)
  <2> SUFFICES ASSUME Together(body, n, b) PROVE FALSE
    OBVIOUS
  <2>1. Apart(body[n], body[b], x, y)
    BY <1>2, <1>3, <1>6 DEF ItemsApart
  <2> QED
    BY <1>7, <2>1, Zenon DEF Apart
<1>9. ~Together(body, b, n)
  <2> SUFFICES ASSUME Together(body, b, n) PROVE FALSE
    OBVIOUS
  <2>1. Apart(body[b], body[n], y, x)
    BY <1>2, <1>3, <1>6 DEF ItemsApart
  <2> QED
    BY <1>7, <2>1, Zenon DEF Apart
<1> HIDE DEF body, a, c
<1>10. b # n
  BY <1>1, <1>8 DEF Together
<1>11. ASSUME b > n PROVE ~(b <= c)
  <2>1. PICK i \in n + 1 .. b : body[i].synced
    BY <1>1, <1>6, <1>8, <1>11 DEF Together
  <2>2. i - 1 \in Nat /\ (i - 1) + 1 = i
    BY <1>1, <1>6
  <2>3. i - 1 < c => i - 1 <= a
    BY <1>5, <2>1, <2>2
  <2> QED
    BY <1>1, <1>6, <2>1, <2>3
<1>12. ASSUME b < n PROVE b <= c
  <2>1. PICK i \in b + 1 .. n : body[i].synced
    BY <1>1, <1>6, <1>9, <1>12 DEF Together
  <2>2. i - 1 \in Nat /\ (i - 1) + 1 = i
    BY <1>1, <1>6
  <2>3. i - 1 < a => i - 1 <= c
    BY <1>5, <2>1, <2>2
  <2>4. i = n => c >= a
    BY <1>4, <2>1
  <2> QED
    BY <1>1, <1>6, <1>12, <2>1, <2>3, <2>4
<1>13. /\ b # n
       /\ b <= c <=> b <= a
  BY <1>1, <1>6, <1>10, <1>11, <1>12
<1> QED
  BY <1>13 DEF a, c

(* The work-item that is to execute a statement is alone with what it       *)
(* touches.                                                                *)
LEMMA AloneInKernel ==
  ASSUME Inv, Text, Kernels, BarriersMet, NEW k \in Enqueued, NEW x \in Grid(k), MayExecute(k, x),
         NEW v, NEW e,
         \/ <<v, e>> \in Touched(mem, Upcoming(k, x), x)
         \/ \A y, z \in Grid(k) : y = z
  PROVE  \A b \in DOMAIN Body(k) : \A y : Sets(Body(k)[b], y, v, e) =>
           /\ b = items[k][x] + 1 => y = x
           /\ b <= items[k][y] <=> b <= items[k][x]
<1> SUFFICES ASSUME NEW b \in DOMAIN Body(k), NEW y, Sets(Body(k)[b], y, v, e), x # y
             PROVE  /\ b # items[k][x] + 1
                    /\ b <= items[k][y] <=> b <= items[k][x]
  OBVIOUS
<1>1. k \in Commands /\ IsDevice(k)
  BY DEF Enqueued
<1>2. y \in Grid(k)
  BY <1>1, Setters
<1>3. <<v, e>> \in Touched(mem, Upcoming(k, x), x)
  BY <1>2
<1>4. <<v, e>> \in Written(Body(k)[b], y)
  BY DEF Sets, Written
<1> QED
  BY <1>2, <1>3, <1>4, ItemsInTurn

(* What a work-item touches next is settled at its place. *)
LEMMA SettledBefore ==
  ASSUME Inv, Text, TextOrders, Kernels, BarriersMet,
         NEW k \in Enqueued, NEW x \in Grid(k), MayExecute(k, x),
         NEW v, NEW e, v \in Reads(k) \cup Writes(k),
         \/ <<v, e>> \in Touched(mem, Upcoming(k, x), x)
         \/ \A y, z \in Grid(k) : y = z
  PROVE  Settled(v, e, k, items[k][x])
<1>1. k \in Commands /\ IsDevice(k) /\ k \in Nat /\ next \in Nat /\ k < next /\ Commands \subseteq Nat
  BY Numbers DEF Enqueued
<1>2. MayStart(k) /\ ~Finished(k)
  BY DEF MayExecute, Running
<1> SUFFICES ASSUME NEW j \in Commands, NEW b \in DOMAIN Body(j), NEW y, Sets(Body(j)[b], y, v, e)
             PROVE  HasExecuted(j, b, y) <=> NotAfter(j, b, k, items[k][x])
  BY DEF Settled
<1>3. CASE j < k
  BY <1>1, <1>2, <1>3, EarlierExecuted DEF NotAfter, TextOrders
<1>4. CASE j = k
  <2>1. b <= items[k][y] <=> b <= items[k][x]
    BY <1>4, AloneInKernel
  <2> QED
    BY <1>1, <1>4, <2>1 DEF NotAfter, HasExecuted
<1>5. CASE k < j
  BY <1>1, <1>2, <1>5, LaterNotExecuted DEF NotAfter
<1> QED
  BY <1>1, <1>3, <1>4, <1>5

(* The statement reads what it reads in the sequential history.             *)
LEMMA ReadsFollow ==
  ASSUME Inv, Text, TextOrders, Kernels, BarriersMet, Shaped(mem), Followed, AllInside,
         NEW k \in Enqueued, NEW x \in Grid(k), MayExecute(k, x), x \in DOMAIN Upcoming(k, x).at,
         NEW r \in ReadBy(Upcoming(k, x), x)
  PROVE  mem[r.array][Element(mem, r, x)] =
           Stage(k, items[k][x])[r.array][Element(Stage(k, items[k][x]), r, x)]
<1> DEFINE s == Upcoming(k, x)
           a == items[k][x]
           past == Stage(k, a)
<1>1. k \in Commands /\ IsDevice(k) /\ k \in Devices /\ k < next /\ a \in Nat /\ a < Len(Body(k))
  BY DEF Enqueued, Inv, Control, Devices, MayExecute, Body
<1>2. Len(Body(k)) \in Nat /\ DOMAIN Body(k) = 1 .. Len(Body(k)) /\ s = Body(k)[a + 1]
  BY <1>1, Texts DEF Upcoming, Body
<1>3. Statements(k) = Range(program[k].body) /\ Body(k) = program[k].body
  BY <1>1 DEF Statements, HasBody, Body
<1>4. s \in Statements(k)
  BY <1>1, <1>2, <1>3 DEF Range
<1>5. r \in s.from /\ x \in DOMAIN r.at
  BY DEF ReadBy
<1> HIDE DEF s
<1>6. r.array \in Reads(k) /\ (r.pointer # "none" => r.pointer \in Reads(k))
  BY <1>4, <1>5 DEF Reads
<1>7. Reads(k) \cup Writes(k) \subseteq Arrays
  BY <1>1 DEF Arrays
<1>8. Reached(k, a)
  BY <1>1, <1>2 DEF Place, Reached
<1>9. Shaped(past)
  BY <1>1, <1>2, StagesShaped
<1>10. \A v \in Arrays, e \in Elements : Settled(v, e, k, a) => mem[v][e] = past[v][e]
  BY <1>8 DEF Followed
<1> HIDE DEF past
<1>11. CASE r.pointer = "none" /\ Range(r.at) \subseteq Elements
  <2> DEFINE e == r.at[x]
  <2>1. Element(mem, r, x) = e /\ Element(past, r, x) = e
    BY <1>11 DEF Element
  <2>2. e \in Elements
    BY <1>5, <1>11 DEF Range
  <2>3. <<r.array, e>> \in Touched(mem, s, x)
    BY <2>1 DEF Touched, s
  <2> HIDE DEF e
  <2>4. Settled(r.array, e, k, a)
    BY <1>6, <2>3, SettledBefore DEF s
  <2>5. mem[r.array][e] = past[r.array][e]
    BY <1>6, <1>7, <1>10, <2>2, <2>4
  <2> QED
    BY <2>1, <2>5, Zenon DEF past
<1>12. CASE \A y, z \in Grid(k) : y = z
  <2>1. ASSUME NEW v \in Reads(k) PROVE mem[v] = past[v]
    <3>1. v \in Arrays
      BY <1>7
    <3>2. \A e \in Elements : Settled(v, e, k, a)
      BY <1>12, SettledBefore
    <3>3. \A e \in Elements : mem[v][e] = past[v][e]
      BY <1>10, <3>1, <3>2
    <3>4. mem[v] = [e \in Elements |-> mem[v][e]] /\ past[v] = [e \in Elements |-> past[v][e]]
      BY <1>9, <3>1 DEF Shaped
    <3> QED
      BY <3>3, <3>4
  <2>2. Element(mem, r, x) = Element(past, r, x)
    BY <1>6, <2>1, Zenon DEF Element
  <2>3. mem[r.array] = past[r.array]
    BY <1>6, <2>1
  <2> QED
    BY <2>2, <2>3, Zenon DEF past
<1>13. Inside(k)
  BY <1>1 DEF AllInside
<1> QED
  BY <1>4, <1>5, <1>11, <1>12, <1>13, Zenon DEF Inside

(* Steps of the device: one work-item executes a statement. *)
LEMMA ExecuteEffect ==
  ASSUME NEW m, Shaped(m), NEW s, NEW x, NEW captured
  PROVE  LET after == Execute(m, s, x, captured)
         IN  /\ Shaped(after)
             /\ \A v \in Arrays, e \in Elements :
                  after[v][e] = IF Sets(s, x, v, e) THEN Value(m, s, x, captured) ELSE m[v][e]
<1> DEFINE after == Execute(m, s, x, captured)
           value == Value(m, s, x, captured)
<1>1. CASE x \notin DOMAIN s.at
  BY <1>1 DEF Execute, Sets
<1>2. CASE x \in DOMAIN s.at
  <2>1. after = [m EXCEPT ![s.to] = [m[s.to] EXCEPT ![s.at[x]] = value]]
    BY <1>2 DEF Execute
  <2> HIDE DEF after, value
  <2>2. DOMAIN m = Arrays /\ \A v \in Arrays : m[v] = [e \in Elements |-> m[v][e]]
    BY DEF Shaped
  <2>3. /\ DOMAIN after = Arrays /\ after = [v \in Arrays |-> after[v]]
        /\ \A v \in Arrays : v # s.to => after[v] = m[v]
        /\ s.to \in Arrays => after[s.to] = [m[s.to] EXCEPT ![s.at[x]] = value]
    BY <2>1, <2>2
  <2>4. s.to \in Arrays => /\ DOMAIN m[s.to] = Elements
                           /\ after[s.to] = [e \in Elements |-> IF e = s.at[x] THEN value ELSE m[s.to][e]]
    BY <2>2, <2>3
  <2>5. ASSUME NEW v \in Arrays PROVE after[v] = [e \in Elements |-> after[v][e]]
    <3>1. CASE v # s.to
      BY <2>2, <2>3, <3>1
    <3>2. CASE v = s.to
      BY <2>4, <3>2
    <3> QED
      BY <3>1, <3>2
  <2>6. Shaped(after)
    BY <2>3, <2>5, Zenon DEF Shaped
  <2>7. ASSUME NEW v \in Arrays, NEW e \in Elements
        PROVE  after[v][e] = IF Sets(s, x, v, e) THEN value ELSE m[v][e]
    BY <1>2, <2>3, <2>4 DEF Sets
  <2> QED
    BY <2>6, <2>7 DEF after, value
<1> QED
  BY <1>1, <1>2

(* What a step says of what has been executed. *)
LEMMA SettledAfter ==
  ASSUME UNCHANGED given, NEW v, NEW e, NEW k, NEW p
  PROVE  Settled(v, e, k, p)' <=>
           \A j \in Commands : \A b \in DOMAIN Body(j) : \A x :
             Sets(Body(j)[b], x, v, e) => (HasExecuted(j, b, x)' <=> NotAfter(j, b, k, p))
<1>1. Commands' = Commands /\ \A j : Body(j)' = Body(j)
  BY Static, TextStatic
<1> QED
  BY <1>1, Zenon DEF Settled

LEMMA ReachedInOrder ==
  ASSUME Inv, Text
  PROVE  next \in 1 .. Len(program) + 1
<1>1. Len(program) \in Nat /\ Commands = 1 .. Len(program)
  BY Texts
<1>2. next \in {1} \cup {k + 1 : k \in Commands}
  BY Zenon DEF Inv, Control
<1> HIDE DEF Commands
<1> QED
  BY <1>1, <1>2

LEMMA ItemExecutes ==
  ASSUME Inv, Text, NEW k \in Enqueued, NEW x \in Grid(k), RunItem(k, x)
  PROVE  \A j \in Commands : \A b \in DOMAIN Body(j) : \A y :
           (IsDevice(j) => y \in Grid(j)) =>
             (HasExecuted(j, b, y)' <=>
                HasExecuted(j, b, y) \/ (j = k /\ b = items[k][x] + 1 /\ y = x))
<1>1. k \in Commands /\ IsDevice(k) /\ k < next /\ DOMAIN items = Commands
      /\ \A j \in Commands : items[j] \in [Grid(j) -> Nat]
  BY DEF Enqueued, Inv, Control
<1>2. UNCHANGED given /\ next' = next /\ items' = [items EXCEPT ![k] = [items[k] EXCEPT ![x] = items[k][x] + 1]]
  BY Zenon DEF RunItem
<1>3. \A j : IsDevice(j)' = IsDevice(j)
  BY <1>2, Static
<1>4. /\ \A j \in Commands \ {k} : items'[j] = items[j]
      /\ items'[k] = [items[k] EXCEPT ![x] = items[k][x] + 1]
  BY <1>1, <1>2
<1> SUFFICES ASSUME NEW j \in Commands, NEW b \in DOMAIN Body(j), NEW y, IsDevice(j) => y \in Grid(j)
             PROVE  HasExecuted(j, b, y)' <=>
                      HasExecuted(j, b, y) \/ (j = k /\ b = items[k][x] + 1 /\ y = x)
  OBVIOUS
<1>5. b \in Nat
  BY Texts
<1>6. CASE j # k
  <2>1. items'[j] = items[j]
    BY <1>4, <1>6
  <2> QED
    BY <1>2, <1>3, <1>6, <2>1, Zenon DEF HasExecuted
<1>7. CASE j = k
  <2> DEFINE f == items[k]
             g == items'[k]
  <2>1. f \in [Grid(k) -> Nat] /\ g = [f EXCEPT ![x] = f[x] + 1] /\ y \in Grid(k)
    BY <1>1, <1>4, <1>7
  <2> HIDE DEF f, g
  <2>2. b <= g[y] <=> b <= f[y] \/ (b = f[x] + 1 /\ y = x)
    BY <1>5, <2>1
  <2>3. HasExecuted(j, b, y)' <=> b <= g[y]
    BY <1>1, <1>2, <1>3, <1>7 DEF HasExecuted, g
  <2>4. HasExecuted(j, b, y) <=> b <= f[y]
    BY <1>1, <1>7 DEF HasExecuted, f
  <2> QED
    BY <1>7, <2>2, <2>3, <2>4 DEF f
<1> QED
  BY <1>6, <1>7

(* The element it sets is settled at the place after, and no other changes. *)
LEMMA RunItemFollows ==
  ASSUME Inv, Text, TextOrders, Kernels, BarriersMet, Shaped(mem), Followed, AllInside,
         NEW k \in Enqueued, NEW x \in Grid(k), RunItem(k, x)
  PROVE  Shaped(mem)' /\ Followed'
<1> DEFINE s == Upcoming(k, x)
           a == items[k][x]
           n == a + 1
<1>1. k \in Commands /\ IsDevice(k) /\ k \in Devices /\ k < next /\ k \in Nat /\ Commands \subseteq Nat
      /\ a \in Nat /\ a < Len(Body(k)) /\ next \in Nat
  BY Numbers DEF Enqueued, Inv, Control, Devices, RunItem, MayExecute, Body
<1>2. Len(Body(k)) \in Nat /\ DOMAIN Body(k) = 1 .. Len(Body(k)) /\ s = Body(k)[n]
      /\ n \in DOMAIN Body(k) /\ ~s.atomic
  BY <1>1, Texts DEF Upcoming, Body, Text
<1>3. UNCHANGED given /\ next' = next /\ taken' = taken /\ MayExecute(k, x)
      /\ mem' = Execute(mem, s, x, taken[k])
  BY DEF RunItem
<1>4. next \in 1 .. Len(program) + 1
  BY ReachedInOrder
<1>5. \A l, q : Reached(l, q) => Stage(l, q)' = Stage(l, q)
  BY <1>3, <1>4, StagesStay DEF Reached
<1>6. /\ Shaped(mem')
      /\ \A v \in Arrays, e \in Elements :
           mem'[v][e] = IF Sets(s, x, v, e) THEN Value(mem, s, x, taken[k]) ELSE mem[v][e]
  <2> HIDE DEF s
  <2> QED
    BY <1>3, ExecuteEffect
<1>7. Shaped(mem)'
  BY <1>3, <1>6, TextStatic
<1> SUFFICES ASSUME NEW l, NEW q, Reached(l, q)', NEW v \in Arrays', NEW e \in Elements', Settled(v, e, l, q)'
             PROVE  mem'[v][e] = Stage(l, q)'[v][e]
  BY <1>7, Zenon DEF Followed
<1>8. v \in Arrays /\ e \in Elements /\ Reached(l, q) /\ Place(l, q)
  BY <1>3, TextStatic DEF Reached
<1>9. Stage(l, q)' = Stage(l, q)
  BY <1>5, <1>8
<1>10. \A j \in Commands : \A b \in DOMAIN Body(j) : \A y :
         Sets(Body(j)[b], y, v, e) =>
           (HasExecuted(j, b, y) \/ (j = k /\ b = n /\ y = x) <=> NotAfter(j, b, l, q))
  <2> TAKE j \in Commands
  <2> TAKE b \in DOMAIN Body(j)
  <2> TAKE y
  <2> HAVE Sets(Body(j)[b], y, v, e)
  <2>1. IsDevice(j) => y \in Grid(j)
    BY Setters
  <2>2. HasExecuted(j, b, y)' <=> HasExecuted(j, b, y) \/ (j = k /\ b = n /\ y = x)
    BY <2>1, ItemExecutes
  <2>3. HasExecuted(j, b, y)' <=> NotAfter(j, b, l, q)
    BY <1>3, SettledAfter
  <2> QED
    BY <2>2, <2>3
<1> HIDE DEF s, a
<1>11. CASE ~Sets(s, x, v, e)
  <2>1. Settled(v, e, l, q)
    BY <1>2, <1>10, <1>11 DEF Settled
  <2>2. mem[v][e] = Stage(l, q)[v][e]
    BY <1>8, <2>1 DEF Followed
  <2> QED
    BY <1>6, <1>8, <1>9, <1>11, <2>2
<1>12. CASE Sets(s, x, v, e)
  <2>1. v \in Writes(k) /\ x \in DOMAIN s.at /\ s.to = v /\ s.at[x] = e
    BY <1>1, <1>2, <1>12, Setters DEF Sets
  <2>2. <<v, e>> \in Touched(mem, s, x)
    BY <2>1 DEF Touched, Written
  <2>3. \A b \in DOMAIN Body(k) : \A y : Sets(Body(k)[b], y, v, e) =>
          /\ b = n => y = x
          /\ b <= items[k][y] <=> b <= a
    BY <1>3, <2>2, AloneInKernel DEF s, a
  <2>4. NotAfter(k, n, l, q)
    BY <1>1, <1>2, <1>10, <1>12
  <2>5. Place(k, n) /\ Place(k, a)
    BY <1>1, <1>2 DEF Place
  <2>6. ASSUME NEW j \in Commands, NEW b \in DOMAIN Body(j), NEW y, Sets(Body(j)[b], y, v, e),
               ~NotAfter(j, b, k, n), NotAfter(j, b, l, q)
        PROVE  FALSE
    <3>1. j \in Nat /\ b \in Nat
      BY <1>1, Texts
    <3>2. HasExecuted(j, b, y)
      BY <1>1, <1>10, <2>6 DEF NotAfter
    <3>3. CASE j = k
      <4>1. b <= items[k][y]
        BY <1>1, <3>2, <3>3 DEF HasExecuted
      <4>2. b <= a
        BY <2>3, <2>6, <3>3, <4>1
      <4> QED
        BY <1>1, <2>6, <3>1, <3>3, <4>2 DEF NotAfter
    <3>4. CASE j # k
      <4>1. k < j
        BY <1>1, <2>6, <3>1, <3>4 DEF NotAfter
      <4>2. ~Finished(k)
        BY <1>3 DEF MayExecute, Running
      <4> QED
        BY <2>1, <2>6, <3>2, <4>1, <4>2, LaterNotExecuted
    <3> QED
      BY <3>3, <3>4
  <2>7. Stage(l, q)[v][e] = Stage(k, n)[v][e]
    BY <1>8, <2>4, <2>5, <2>6, Kept DEF ElementsKeep
  <2>8. Shaped(Stage(k, a))
    BY <1>1, <1>2, StagesShaped
  <2>9. Stage(k, n) = ExecuteStatement(Stage(k, a), s, taken[k])
    BY <1>1, <1>2, Stages
  <2> DEFINE past == Stage(k, a)
             c == taken[k]
  <2> HIDE DEF past, c
  <2>10. ExecuteStatement(past, s, c)[v][e] = Changed(past, s, e, c)
    BY <1>2, <1>8, <2>1, <2>8, StatementEffect DEF past
  <2>11. Writers(s, e) = {x}
    BY <1>2, <1>12, <2>1, <2>3 DEF Writers, Sets
  <2>12. Changed(past, s, e, c) = Value(past, s, x, c)
    BY <1>2, <2>11 DEF Changed
  <2>13. Value(mem, s, x, c) = Value(past, s, x, c)
    <3>1. \A r \in ReadBy(s, x) : mem[r.array][Element(mem, r, x)] = past[r.array][Element(past, r, x)]
      BY <1>3, <2>1, ReadsFollow DEF s, past, a
    <3>2. Operands(mem, s, x) = Operands(past, s, x)
      BY <3>1 DEF Operands
    <3> QED
      BY <3>2, Zenon DEF Value
  <2> QED
    BY <1>6, <1>8, <1>9, <1>12, <2>7, <2>9, <2>10, <2>12, <2>13 DEF past, c
<1> QED
  BY <1>11, <1>12

(* Statements that touch only arrays which two memories agree on leave them *)
(* in agreement.                                                           *)
Agree(m, q, V) == \A v \in V : m[v] = q[v]

Touches(s, V) ==
  /\ s.to \in V
  /\ \A r \in s.from : r.array \in V /\ (r.pointer # "none" => r.pointer \in V)

LEMMA ValuesAgree ==
  ASSUME NEW m, NEW q, NEW V, Agree(m, q, V), NEW s, Touches(s, V), NEW x, NEW captured
  PROVE  Value(m, s, x, captured) = Value(q, s, x, captured)
<1>1. ASSUME NEW r \in ReadBy(s, x)
      PROVE  r.times * m[r.array][Element(m, r, x)] = r.times * q[r.array][Element(q, r, x)]
  <2>1. r.array \in V /\ (r.pointer # "none" => r.pointer \in V)
    BY DEF ReadBy, Touches
  <2>2. m[r.array] = q[r.array] /\ (r.pointer # "none" => m[r.pointer] = q[r.pointer])
    BY <2>1, Zenon DEF Agree
  <2>3. Element(m, r, x) = Element(q, r, x)
    BY <2>2, Zenon DEF Element
  <2> QED
    BY <2>2, <2>3
<1>2. Operands(m, s, x) = Operands(q, s, x)
  BY <1>1 DEF Operands
<1> QED
  BY <1>2, Zenon DEF Value

LEMMA StatementAgrees ==
  ASSUME NEW m, NEW q, Shaped(m), Shaped(q), NEW V, V \subseteq Arrays, Agree(m, q, V),
         NEW s, ~s.atomic, Touches(s, V), NEW captured
  PROVE  Agree(ExecuteStatement(m, s, captured), ExecuteStatement(q, s, captured), V)
<1> DEFINE f == ExecuteStatement(m, s, captured)
           g == ExecuteStatement(q, s, captured)
<1>1. /\ Shaped(f) /\ Shaped(g)
      /\ \A v \in Arrays, e \in Elements :
           /\ v # s.to => f[v] = m[v] /\ g[v] = q[v]
           /\ v = s.to => f[v][e] = Changed(m, s, e, captured) /\ g[v][e] = Changed(q, s, e, captured)
  BY StatementEffect
<1>2. s.to \in V /\ m[s.to] = q[s.to]
  BY DEF Agree, Touches
<1>3. ASSUME NEW x PROVE Value(m, s, x, captured) = Value(q, s, x, captured)
  BY ValuesAgree
<1>4. ASSUME NEW e PROVE Changed(m, s, e, captured) = Changed(q, s, e, captured)
  BY <1>2, <1>3, Zenon DEF Changed
<1> HIDE DEF f, g
<1>5. ASSUME NEW v \in V PROVE f[v] = g[v]
  <2>1. v \in Arrays
    OBVIOUS
  <2>2. CASE v # s.to /\ Elements # {}
    <3>1. m[v] = q[v]
      BY DEF Agree
    <3> QED
      BY <1>1, <2>1, <2>2, <3>1
  <2>3. CASE v = s.to
    <3>1. \A e \in Elements : f[v][e] = g[v][e]
      BY <1>1, <1>4, <2>1, <2>3
    <3>2. f[v] = [e \in Elements |-> f[v][e]] /\ g[v] = [e \in Elements |-> g[v][e]]
      BY <1>1, <2>1 DEF Shaped
    <3> QED
      BY <3>1, <3>2
  <2>4. CASE Elements = {}
    <3>1. f[v] = [e \in Elements |-> f[v][e]] /\ g[v] = [e \in Elements |-> g[v][e]]
      BY <1>1, <2>1 DEF Shaped
    <3> QED
      BY <2>4, <3>1
  <2> QED
    BY <2>2, <2>3, <2>4
<1>6. Agree(f, g, V)
  BY <1>5 DEF Agree
<1> QED
  BY <1>6 DEF f, g

LEMMA AllAgree ==
  ASSUME NEW m, NEW q, Shaped(m), Shaped(q), NEW V, V \subseteq Arrays, Agree(m, q, V),
         NEW body, NEW captured, NEW n \in Nat, \A b \in 1 .. n : ~body[b].atomic /\ Touches(body[b], V)
  PROVE  Agree(Executed(m, body, captured)[n], Executed(q, body, captured)[n], V)
<1> DEFINE f == Executed(m, body, captured)
           g == Executed(q, body, captured)
           Done == {p \in Nat : p <= n => Agree(f[p], g[p], V) /\ Shaped(f[p]) /\ Shaped(g[p])}
<1>1. /\ f[0] = m /\ \A p \in Nat : f[p + 1] = ExecuteStatement(f[p], body[p + 1], captured)
      /\ g[0] = q /\ \A p \in Nat : g[p + 1] = ExecuteStatement(g[p], body[p + 1], captured)
  BY ExecutedSteps
<1> HIDE DEF f, g
<1>2. 0 \in Done
  BY <1>1
<1>3. ASSUME NEW p \in Nat, p \in Done PROVE p + 1 \in Done
  <2> SUFFICES ASSUME p + 1 <= n
               PROVE  Agree(f[p + 1], g[p + 1], V) /\ Shaped(f[p + 1]) /\ Shaped(g[p + 1])
    OBVIOUS
  <2> DEFINE s == body[p + 1]
             m1 == f[p]
             q1 == g[p]
  <2>1. /\ Agree(m1, q1, V) /\ Shaped(m1) /\ Shaped(q1) /\ ~s.atomic /\ Touches(s, V)
        /\ f[p + 1] = ExecuteStatement(m1, s, captured) /\ g[p + 1] = ExecuteStatement(q1, s, captured)
    BY <1>1, <1>3
  <2> HIDE DEF s, m1, q1
  <2>2. Shaped(ExecuteStatement(m1, s, captured)) /\ Shaped(ExecuteStatement(q1, s, captured))
    BY <2>1, StatementEffect
  <2>3. Agree(ExecuteStatement(m1, s, captured), ExecuteStatement(q1, s, captured), V)
    BY <2>1, StatementAgrees
  <2> QED
    BY <2>1, <2>2, <2>3
<1>4. \A p \in Nat : p \in Done
  <2> HIDE DEF Done
  <2> QED
    BY <1>2, <1>3, NumberInduction
<1>5. Agree(f[n], g[n], V)
  BY <1>4
<1> QED
  BY <1>5 DEF f, g

------------------------------------------------------------------------------
(* Steps of the host. *)

(* What has been executed in a step of the host. *)
LEMMA HostExecutes ==
  ASSUME Inv, Text, Host
  PROVE  \A j \in Commands : \A b \in DOMAIN Body(j) : \A y :
           (IsDevice(j) => y \in Grid(j)) =>
             (HasExecuted(j, b, y)' <=> HasExecuted(j, b, y) \/ (j = next /\ ~IsDevice(j)))
<1>1. UNCHANGED given /\ items' = items /\ next \in Commands /\ next' = next + 1
  BY HostEffects
<1>2. \A j : IsDevice(j)' = IsDevice(j)
  BY <1>1, Static
<1>3. Commands \subseteq Nat /\ next \in Nat
  BY Numbers
<1> SUFFICES ASSUME NEW j \in Commands, NEW b \in DOMAIN Body(j), NEW y, IsDevice(j) => y \in Grid(j)
             PROVE  HasExecuted(j, b, y)' <=> HasExecuted(j, b, y) \/ (j = next /\ ~IsDevice(j))
  OBVIOUS
<1>4. HasExecuted(j, b, y)' <=> j < next + 1 /\ (IsDevice(j) => b <= items[j][y])
  BY <1>1, <1>2 DEF HasExecuted
<1>5. IsDevice(j) /\ j >= next => ~(b <= items[j][y])
  <2> SUFFICES ASSUME IsDevice(j), j >= next PROVE ~(b <= items[j][y])
    OBVIOUS
  <2>1. items[j][y] \in Nat /\ ~Started(j)
    BY DEF Inv, Control
  <2>2. ~(items[j][y] > 0)
    BY <2>1 DEF Started
  <2>3. b \in Nat \ {0}
    BY Texts
  <2> QED
    BY <2>1, <2>2, <2>3
<1> QED
  BY <1>3, <1>4, <1>5 DEF HasExecuted

(* What a loop or a comparison of the host touches holds what it holds in   *)
(* the history when the host comes to it.                                  *)
LEMMA HostFinds ==
  ASSUME Inv, Text, Shaped(mem), Followed, ~Blocked, next \in Commands,
         \A k \in Devices : k < next =>
           \/ k \in FinishedWith(HostWaited(next))
           \/ Writes(k) \cap (Reads(next) \cup Writes(next)) = {}
  PROVE  Agree(mem, InTurn[next - 1], Reads(next) \cup Writes(next))
<1>1. next \in Nat \ {0} /\ Commands \subseteq Nat /\ next - 1 \in 0 .. Len(program)
  BY Numbers, Texts
<1>2. Reads(next) \cup Writes(next) \subseteq Arrays
  BY DEF Arrays
<1>3. Reached(next, 0) /\ Stage(next, 0) = InTurn[next - 1] /\ Shaped(InTurn[next - 1])
  <2>1. 0 \in 0 .. Len(Body(next))
    BY Texts
  <2> QED
    BY <1>1, <2>1, Stages, StagesShaped DEF Reached, Place
<1>4. ASSUME NEW v \in Reads(next) \cup Writes(next), NEW e,
             NEW j \in Commands, NEW b \in DOMAIN Body(j), NEW y, Sets(Body(j)[b], y, v, e)
      PROVE  HasExecuted(j, b, y) <=> NotAfter(j, b, next, 0)
  <2>1. b \in Nat \ {0} /\ j \in Nat /\ b <= Len(Body(j))
    BY <1>1, Texts
  <2>2. ASSUME j < next, IsDevice(j) PROVE b <= items[j][y]
    <3>1. v \in Writes(j) /\ y \in Grid(j) /\ j \in Devices
      BY <1>4, <2>2, Setters DEF Devices
    <3>3. j \in FinishedWith(HostWaited(next))
      BY <1>4, <2>2, <3>1
    <3>4. \A i \in HostWaited(next) : i \in Devices /\ i < next /\ Finished(i)
      BY <1>1, WaitedIsFinished
    <3>5. Finished(j)
      BY <3>3, <3>4, FinishedTogether
    <3>6. items[j][y] = Len(program[j].body) /\ Body(j) = program[j].body
      BY <2>2, <3>1, <3>5 DEF Finished, Body
    <3> QED
      BY <2>1, <3>6
  <2> QED
    BY <1>1, <2>1, <2>2 DEF HasExecuted, NotAfter
<1>5. ASSUME NEW v \in Reads(next) \cup Writes(next) PROVE mem[v] = InTurn[next - 1][v]
  <2> DEFINE past == InTurn[next - 1]
  <2>1. v \in Arrays
    BY <1>2
  <2>2. \A e \in Elements : Settled(v, e, next, 0)
    BY <1>4, <1>5 DEF Settled
  <2>3. \A e \in Elements : mem[v][e] = past[v][e]
    BY <1>3, <2>1, <2>2 DEF Followed
  <2>4. Shaped(past)
    BY <1>3
  <2> HIDE DEF past
  <2>5. mem[v] = [e \in Elements |-> mem[v][e]] /\ past[v] = [e \in Elements |-> past[v][e]]
    BY <2>1, <2>4 DEF Shaped
  <2>6. mem[v] = past[v]
    BY <2>3, <2>5
  <2> QED
    BY <2>6 DEF past
<1> QED
  BY <1>5 DEF Agree

LEMMA LoopsFollow ==
  ASSUME Inv, Text, TextOrders, Shaped(mem), Followed,
         ~Blocked, next \in Commands, program[next].op = "host"
  PROVE  Agree(mem, InTurn[next - 1], Reads(next) \cup Writes(next))
<1>1. ASSUME NEW k \in Devices, k < next
      PROVE  k \in FinishedWith(HostWaited(next)) \/ ~HostConflict(k, next)
  BY <1>1, Zenon DEF TextOrders, LoopsOrdered
<1>2. ASSUME NEW k, ~HostConflict(k, next) PROVE Writes(k) \cap (Reads(next) \cup Writes(next)) = {}
  BY <1>2 DEF HostConflict, HostReads, HostSets
<1> QED
  BY <1>1, <1>2, HostFinds

(* Only kernels capture. *)
NothingTaken == DOMAIN taken = Commands /\ \A k \in Commands : ~IsDevice(k) => taken[k] = 0

LEMMA TouchesOwn ==
  ASSUME NEW k, NEW b \in DOMAIN Body(k)
  PROVE  Touches(Body(k)[b], Reads(k) \cup Writes(k))
<1> DEFINE s == Body(k)[b]
<1>1. s \in Statements(k)
  BY DEF Body, Statements, HasBody, Range
<1> HIDE DEF s, Statements
<1>2. s.to \in Writes(k)
  BY <1>1 DEF Writes
<1>3. \A r \in s.from : r.array \in Reads(k) /\ (r.pointer # "none" => r.pointer \in Reads(k))
  BY <1>1 DEF Reads
<1>4. Touches(s, Reads(k) \cup Writes(k))
  BY <1>2, <1>3 DEF Touches
<1> QED
  BY <1>4 DEF s

(* What a step of the host leaves in memory. *)
LEMMA HostMemory ==
  ASSUME Inv, Text, TextOrders, Shaped(mem), Followed, NothingTaken, Host
  PROVE  /\ Shaped(mem')
         /\ \A v \in Arrays, e \in Elements :
              (\A b \in DOMAIN Body(next) : \A y : Sets(Body(next)[b], y, v, e) => IsDevice(next)) =>
                mem'[v][e] = mem[v][e]
         /\ program[next].op = "host" =>
              /\ taken' = taken
              /\ Agree(mem', Stage(next, Len(Body(next))), Reads(next) \cup Writes(next))
<1> DEFINE body == Body(next)
           L == Len(body)
<1>1. next \in Commands /\ ~Blocked
  BY HostEffects
<1>2. L \in Nat /\ DOMAIN body = 1 .. L /\ \A b \in 1 .. L : ~body[b].atomic
  BY <1>1, Texts DEF Text
<1>3. CASE program[next].op # "host"
  <2>1. mem' = mem
    BY <1>3 DEF Host, HostEnqueues, HostWaits, HostWrites, HostFrees, HostVerifies, HostAt
  <2> QED
    BY <1>3, <2>1
<1>4. CASE program[next].op = "host"
  <2>1. taken' = taken /\ mem' = Executed(mem, body, 0)[L]
    <3>1. HostWrites
      BY <1>4 DEF Host, HostEnqueues, HostWaits, HostFrees, HostVerifies, HostAt
    <3>2. body = program[next].body
      BY <1>4 DEF Body
    <3> HIDE DEF body
    <3> QED
      BY <3>1, <3>2 DEF HostWrites, ExecuteAll
  <2>2. ~IsDevice(next)
    BY <1>4 DEF IsDevice
  <2>3. taken[next] = 0
    BY <1>1, <2>2 DEF NothingTaken
  <2>4. \A b \in DOMAIN body : Touches(body[b], Reads(next) \cup Writes(next))
    BY TouchesOwn
  <2>5. Agree(mem, InTurn[next - 1], Reads(next) \cup Writes(next))
    BY <1>1, <1>4, LoopsFollow
  <2>6. Shaped(InTurn[next - 1])
    <3>1. next - 1 \in 0 .. Len(program)
      BY <1>1, Texts
    <3> QED
      BY <3>1, StagesShaped
  <2>7. Stage(next, L) = Executed(InTurn[next - 1], body, 0)[L]
    BY <2>3, Zenon DEF Stage
  <2>8. Reads(next) \cup Writes(next) \subseteq Arrays
    BY <1>1 DEF Arrays
  <2> DEFINE V == Reads(next) \cup Writes(next)
             past == InTurn[next - 1]
  <2> HIDE DEF body, L, V, past
  <2>9. Agree(Executed(mem, body, 0)[L], Executed(past, body, 0)[L], V)
    <3>1. Shaped(past) /\ V \subseteq Arrays /\ Agree(mem, past, V)
      BY <2>5, <2>6, <2>8 DEF V, past
    <3>2. L \in Nat /\ \A b \in 1 .. L : ~body[b].atomic /\ Touches(body[b], V)
      BY <1>2, <2>4 DEF V
    <3> QED
      BY <3>1, <3>2, AllAgree
  <2>10. ASSUME NEW v \in Arrays, NEW e \in Elements,
               \A b \in DOMAIN body : \A y : ~Sets(body[b], y, v, e)
        PROVE  mem'[v][e] = mem[v][e]
    <3>1. Unset(body, 0, L, v, e) /\ 0 \in 0 .. L
      BY <1>2, <2>10 DEF Unset
    <3>2. Executed(mem, body, 0)[L][v][e] = Executed(mem, body, 0)[0][v][e]
      BY <1>2, <3>1, KeptExecuted
    <3>3. Executed(mem, body, 0)[0] = mem
      BY ExecutedSteps
    <3> QED
      BY <2>1, <3>2, <3>3
  <2>11. Shaped(mem')
    <3>1. \A n \in 0 .. L : Shaped(Executed(mem, body, 0)[n])
      BY <1>2, ExecutedShaped
    <3> QED
      BY <1>2, <2>1, <3>1
  <2>12. Agree(mem', Stage(next, L), V)
    BY <2>1, <2>7, <2>9 DEF past
  <2> QED
    BY <1>4, <2>1, <2>2, <2>10, <2>11, <2>12 DEF body, L, V
<1> QED
  BY <1>3, <1>4

LEMMA HostFollows ==
  ASSUME Inv, Text, TextOrders, Shaped(mem), Followed, NothingTaken, Host
  PROVE  Shaped(mem)' /\ Followed'
<1>0. PICK n : n = next
  OBVIOUS
<1> DEFINE body == Body(n)
           L == Len(body)
<1>1. /\ UNCHANGED given /\ items' = items /\ n \in Commands /\ next' = n + 1 /\ ~Blocked
      /\ n \in Nat \ {0} /\ Commands \subseteq Nat
  BY <1>0, HostEffects, Texts
<1>2. L \in Nat /\ DOMAIN body = 1 .. L /\ n \in 1 .. Len(program) /\ Len(program) \in Nat
      /\ Commands = 1 .. Len(program)
  BY <1>1, Texts
<1>3. \A j \in Commands : j < n => taken'[j] = taken[j]
  BY <1>0, <1>1 DEF NothingTaken, Host, HostEnqueues, HostWaits, HostWrites, HostFrees, HostVerifies
<1>4. /\ Shaped(mem')
      /\ \A v \in Arrays, e \in Elements :
           (\A b \in DOMAIN body : \A y : Sets(body[b], y, v, e) => IsDevice(n)) => mem'[v][e] = mem[v][e]
      /\ program[n].op = "host" => taken' = taken /\ Agree(mem', Stage(n, L), Reads(n) \cup Writes(n))
  BY <1>0, HostMemory
<1>5. Shaped(mem)'
  BY <1>1, <1>4, TextStatic
<1>6. \A l, q : Place(l, q) /\ (l < n \/ (l = n /\ q = 0)) => Stage(l, q)' = Stage(l, q)
  BY <1>1, <1>2, <1>3, StagesStay
<1>7. Text'
  BY <1>1, TextStatic
<1> SUFFICES ASSUME NEW l, NEW q, Reached(l, q)', NEW v \in Arrays', NEW e \in Elements', Settled(v, e, l, q)'
             PROVE  mem'[v][e] = Stage(l, q)'[v][e]
  BY <1>5, Zenon DEF Followed
<1>8. v \in Arrays /\ e \in Elements /\ Place(l, q) /\ (l < n + 1 \/ (l = n + 1 /\ q = 0))
  BY <1>1, TextStatic DEF Reached
<1>9. l \in Nat /\ q \in Nat
  BY <1>2, <1>8, Texts DEF Place
<1>10. \A j \in Commands : \A b \in DOMAIN Body(j) : \A y :
         Sets(Body(j)[b], y, v, e) =>
           /\ HasExecuted(j, b, y) \/ (j = n /\ ~IsDevice(j)) <=> NotAfter(j, b, l, q)
           /\ j \in Nat /\ b \in Nat \ {0} /\ b <= Len(Body(j))
  <2> TAKE j \in Commands
  <2> TAKE b \in DOMAIN Body(j)
  <2> TAKE y
  <2> HAVE Sets(Body(j)[b], y, v, e)
  <2>1. IsDevice(j) => y \in Grid(j)
    BY Setters
  <2>2. HasExecuted(j, b, y)' <=> HasExecuted(j, b, y) \/ (j = n /\ ~IsDevice(j))
    BY <1>0, <2>1, HostExecutes
  <2>3. HasExecuted(j, b, y)' <=> NotAfter(j, b, l, q)
    BY <1>1, SettledAfter
  <2>4. b \in Nat \ {0} /\ b <= Len(Body(j))
    BY Texts
  <2> QED
    BY <1>1, <2>2, <2>3, <2>4
<1>11. CASE \A b \in DOMAIN body : \A y : Sets(body[b], y, v, e) => IsDevice(n)
  <2>1. mem'[v][e] = mem[v][e]
    BY <1>4, <1>8, <1>11
  <2>2. \A j \in Commands : \A b \in DOMAIN Body(j) : \A y :
          Sets(Body(j)[b], y, v, e) => (HasExecuted(j, b, y) <=> NotAfter(j, b, l, q))
    BY <1>10, <1>11
  <2>3. CASE l < n \/ (l = n /\ q = 0)
    <3>1. Settled(v, e, l, q) /\ Reached(l, q)
      BY <1>8, <2>2, <2>3, <1>0 DEF Settled, Reached
    <3>2. mem[v][e] = Stage(l, q)[v][e]
      BY <1>8, <3>1 DEF Followed
    <3> QED
      BY <1>6, <1>8, <2>1, <2>3, <3>2
  <2>4. CASE ~(l < n \/ (l = n /\ q = 0))
    <3>1. NotAfter(n, 0, l, q) /\ n <= l
      BY <1>1, <1>9, <2>4 DEF NotAfter
    <3>2. ASSUME NEW j \in Commands, NEW b \in DOMAIN Body(j), NEW y, Sets(Body(j)[b], y, v, e)
          PROVE  /\ HasExecuted(j, b, y) <=> NotAfter(j, b, n, 0)
                 /\ NotAfter(j, b, n, 0) \/ ~NotAfter(j, b, l, q)
      <4>1. HasExecuted(j, b, y) <=> NotAfter(j, b, l, q)
        BY <2>2, <3>2
      <4>2. j \in Nat /\ b \in Nat \ {0}
        BY <1>10, <3>2
      <4>3. HasExecuted(j, b, y) => j < n
        BY <1>0 DEF HasExecuted
      <4> QED
        BY <1>1, <1>9, <3>1, <4>1, <4>2, <4>3 DEF NotAfter
    <3>3. Place(n, 0) /\ Reached(n, 0)
      BY <1>0, <1>1, <1>2 DEF Place, Reached
    <3>4. mem[v][e] = Stage(n, 0)[v][e]
      <4>1. Settled(v, e, n, 0)
        BY <3>2 DEF Settled
      <4> QED
        BY <1>8, <3>3, <4>1 DEF Followed
    <3>5. Stage(n, 0)' = Stage(n, 0)
      BY <1>6, <3>3
    <3>6. Stage(l, q)'[v][e] = Stage(n, 0)'[v][e]
      BY <1>1, <1>8, <3>1, <3>2, <3>3, KeptNext
    <3> QED
      BY <2>1, <3>4, <3>5, <3>6
  <2> QED
    BY <2>3, <2>4
<1>12. CASE ~\A b \in DOMAIN body : \A y : Sets(body[b], y, v, e) => IsDevice(n)
  <2>1. PICK c \in DOMAIN body : \E y : Sets(body[c], y, v, e) /\ ~IsDevice(n)
    BY <1>12
  <2>2. PICK z : Sets(body[c], z, v, e) /\ ~IsDevice(n)
    BY <2>1
  <2>3. v \in Writes(n) /\ program[n].op = "host"
    BY <2>2, Setters
  <2>4. taken' = taken /\ mem'[v] = Stage(n, L)[v]
    BY <1>4, <2>3 DEF Agree
  <2>5. n <= l
    BY <1>1, <1>9, <1>10, <2>2 DEF NotAfter
  <2>6. l = n \/ (l = n + 1 /\ q = 0)
    BY <1>1, <1>8, <1>9, <2>5
  <2>7. Stage(l, q)' = Stage(l, q)
    <3>1. n + 1 \in 1 .. Len(program) + 1 /\ \A j \in Commands : j < n + 1 => taken'[j] = taken[j]
      BY <1>2, <2>4
    <3> QED
      BY <1>1, <1>8, <3>1, StagesStay
  <2>8. Place(n, L)
    BY <1>1, <1>2 DEF Place
  <2>9. ASSUME NEW j \in Commands, NEW b \in DOMAIN Body(j), NEW y, Sets(Body(j)[b], y, v, e)
        PROVE  NotAfter(j, b, n, L) <=> NotAfter(j, b, l, q)
    <3>1. /\ HasExecuted(j, b, y) \/ (j = n /\ ~IsDevice(j)) <=> NotAfter(j, b, l, q)
          /\ j \in Nat /\ b \in Nat \ {0} /\ b <= Len(Body(j))
      BY <1>10, <2>9
    <3>2. j = n => NotAfter(j, b, l, q) /\ b <= L
      BY <2>2, <3>1
    <3> QED
      BY <1>1, <1>2, <1>9, <2>6, <3>1, <3>2 DEF NotAfter
  <2>10. Stage(l, q)[v][e] = Stage(n, L)[v][e]
    <3>1. CASE NotAfter(n, L, l, q)
      BY <1>8, <2>8, <2>9, <3>1, Kept DEF ElementsKeep
    <3>2. CASE ~NotAfter(n, L, l, q)
      <4>1. NotAfter(l, q, n, L)
        BY <1>1, <1>2, <1>9, <2>6, <3>2 DEF NotAfter
      <4> QED
        BY <1>8, <2>8, <2>9, <4>1, Kept DEF ElementsKeep
    <3> QED
      BY <3>1, <3>2
  <2> QED
    BY <2>4, <2>7, <2>10
<1> QED
  BY <1>11, <1>12

(* What is known of memory at any time. *)
History == Text /\ TextOrders /\ AllInside /\ Shaped(mem) /\ Followed /\ NothingTaken

LEMMA OrderStays ==
  ASSUME UNCHANGED given
  PROVE  /\ OrdersLoops' = OrdersLoops /\ Ordered' = Ordered
         /\ TextOrders => TextOrders'
         /\ AllInside => AllInside'
<1>1. program' = program /\ synchronous' = synchronous /\ name' = name
  BY DEF given
<1>2. /\ Commands' = Commands /\ Devices' = Devices
      /\ \A k : Grid(k)' = Grid(k) /\ IsDevice(k)' = IsDevice(k)
  BY Static, Zenon
<1>3. (\A k : Statements(k)' = Statements(k)) /\ Elements' = Elements
  BY TextStatic, Zenon
<1>4. \A k : Inside(k)' = Inside(k)
  BY <1>2, <1>3, Zenon DEF Inside
<1>5. AllInside => AllInside'
  BY <1>2, <1>4, Zenon DEF AllInside
<1>6. OrdersLoops' = OrdersLoops /\ Ordered' = Ordered
  BY <1>1, Zenon DEF OrdersLoops, Ordered
<1>7. TextOrders => TextOrders'
  BY TextStays, Zenon DEF TextOrders
<1> QED
  BY <1>5, <1>6, <1>7

LEMMA TextGiven == Init /\ NoAtomics => Text
<1> SUFFICES ASSUME Init, NoAtomics PROVE Text
  OBVIOUS
<1>1. Sequence(program) /\ \A k \in Commands : Usable(program[k])
  BY ProgramsGood DEF Init, Commands
<1>2. ASSUME NEW k \in Commands
      PROVE  Sequence(Body(k)) /\ \A b \in DOMAIN Body(k) : ~Body(k)[b].atomic
  <2>1. CASE IsDevice(k)
    <3>1. Sequence(Body(k)) /\ Body(k) = program[k].body
      BY <1>1, <2>1 DEF Usable, IsDevice, Kernel, Body
    <3>2. Statements(k) = Range(Body(k))
      BY <2>1, <3>1, Zenon DEF Statements, HasBody
    <3> QED
      BY <3>1, <3>2, Zenon DEF NoAtomics, Range
  <2>2. CASE ~IsDevice(k) /\ program[k].op = "host"
    <3>1. Sequence(Body(k)) /\ Body(k) = program[k].body
      BY <1>1, <2>2 DEF Usable, Body
    <3>2. Statements(k) = Range(Body(k))
      BY <2>2, <3>1 DEF Statements, HasBody
    <3> QED
      BY <3>1, <3>2, Zenon DEF NoAtomics, Range
  <2>3. CASE ~IsDevice(k) /\ program[k].op # "host"
    <3>1. Body(k) = <<>>
      BY <2>3, Zenon DEF Body
    <3>2. <<>> \in Seq({}) /\ DOMAIN <<>> = {}
      OBVIOUS
    <3> QED
      BY <3>1, <3>2, Zenon DEF Sequence
  <2> QED
    BY <2>1, <2>2, <2>3
<1> QED
  BY <1>1, <1>2, Zenon DEF Text

(* It holds at first, in every step, and says what is left at the end.     *)
LEMMA HistoryBegins == Init /\ Synchronized /\ NoAtomics /\ OrdersLoops => History
<1> SUFFICES ASSUME Init, Synchronized, NoAtomics, OrdersLoops PROVE History
  OBVIOUS
<1>1. Text
  BY TextGiven
<1>2. TextOrders /\ AllInside
  BY Zenon DEF Init, Synchronized, TextOrders, AllInside
<1>3. mem = Memory /\ next = 1 /\ taken = [k \in Commands |-> 0]
  BY DEF Init
<1>4. Shaped(mem)
  BY <1>3, MemoryShaped
<1>5. NothingTaken
  BY <1>3 DEF NothingTaken
<1>6. ASSUME NEW k, NEW p, Reached(k, p) PROVE Stage(k, p) = mem
  <2>1. k = 1 /\ p = 0
    BY <1>1, <1>3, <1>6, Texts DEF Reached, Place
  <2>2. Stage(1, 0) = InTurn[1 - 1]
    BY Stages
  <2>3. Stage(1, 0) = InTurn[0]
    BY <2>2
  <2>4. InTurn[0] = Memory
    BY InTurnSteps DEF InTurnIs
  <2> QED
    BY <1>3, <2>1, <2>3, <2>4
<1>7. Followed
  BY <1>6 DEF Followed
<1> QED
  BY <1>1, <1>2, <1>4, <1>5, <1>7 DEF History

LEMMA FollowedStutters ==
  ASSUME Inv, Text, Shaped(mem), Followed, UNCHANGED vars
  PROVE  Shaped(mem)' /\ Followed'
<1>1. UNCHANGED given /\ next' = next /\ items' = items /\ taken' = taken /\ mem' = mem
  BY DEF vars
<1>2. Shaped(mem)'
  <2>1. Arrays' = Arrays /\ Elements' = Elements
    BY <1>1, TextStatic
  <2> QED
    BY <1>1, <2>1, Zenon DEF Shaped
<1>3. Len(program) + 1 \in 1 .. Len(program) + 1
  BY Texts
<1>4. \A k, p : Place(k, p) /\ (k < Len(program) + 1 \/ (k = Len(program) + 1 /\ p = 0)) =>
                  Stage(k, p)' = Stage(k, p)
  BY <1>1, <1>3, StagesStay
<1>5. \A k, p : Place(k, p) => Stage(k, p)' = Stage(k, p)
  BY <1>4, Texts DEF Place
<1>6. /\ \A k : IsDevice(k)' = IsDevice(k)
      /\ \A k, p : Place(k, p)' = Place(k, p)
      /\ Arrays' = Arrays /\ Elements' = Elements
  BY <1>1, Static, TextStatic
<1>7. \A k, p : Reached(k, p)' = Reached(k, p)
  BY <1>1, <1>6, Zenon DEF Reached
<1>8. \A j, b, x : HasExecuted(j, b, x)' <=> HasExecuted(j, b, x)
  BY <1>1, <1>6, Zenon DEF HasExecuted
<1>9. ASSUME NEW v, NEW e, NEW k, NEW p PROVE Settled(v, e, k, p)' => Settled(v, e, k, p)
  <2>1. Settled(v, e, k, p)' <=>
           \A j \in Commands : \A b \in DOMAIN Body(j) : \A x :
             Sets(Body(j)[b], x, v, e) => (HasExecuted(j, b, x)' <=> NotAfter(j, b, k, p))
    BY <1>1, SettledAfter
  <2> QED
    BY <1>8, <2>1 DEF Settled
<1> SUFFICES ASSUME NEW l, NEW q, Reached(l, q)', NEW v \in Arrays', NEW e \in Elements', Settled(v, e, l, q)'
             PROVE  mem'[v][e] = Stage(l, q)'[v][e]
  BY <1>2, Zenon DEF Followed
<1>10. Reached(l, q) /\ Place(l, q) /\ v \in Arrays /\ e \in Elements /\ Settled(v, e, l, q)
  BY <1>6, <1>7, <1>9, Zenon DEF Reached
<1>11. mem[v][e] = Stage(l, q)[v][e]
  BY <1>10 DEF Followed
<1> QED
  BY <1>1, <1>5, <1>10, <1>11

LEMMA NothingTakenStays == NothingTaken /\ [Next]_vars => NothingTaken'
<1> SUFFICES ASSUME NothingTaken, [Next]_vars PROVE NothingTaken'
  OBVIOUS
<1>1. UNCHANGED given
  BY GivenStays
<1>2. Commands' = Commands /\ \A k : IsDevice(k)' = IsDevice(k)
  BY <1>1, Static
<1>3. CASE taken' = taken
  BY <1>2, <1>3, Zenon DEF NothingTaken
<1>4. CASE HostEnqueues
  <2>1. PICK n : n = next
    OBVIOUS
  <2>2. taken' = [taken EXCEPT ![n] = CapturedBy(n)] /\ IsDevice(n)
    BY <1>4, <2>1 DEF HostEnqueues, HostAt, IsDevice
  <2> QED
    BY <1>2, <2>2 DEF NothingTaken
<1>5. taken' = taken \/ HostEnqueues
  BY DEF Next, Device, RunItem, Host, HostWaits, HostWrites, HostFrees, HostVerifies, vars
<1> QED
  BY <1>3, <1>4, <1>5

LEMMA HistoryStays ==
  Inv /\ Kernels /\ BarriersMet /\ History /\ [Next]_vars => History'
<1> SUFFICES ASSUME Inv, Kernels, BarriersMet, History, [Next]_vars PROVE History'
  OBVIOUS
<1>1. UNCHANGED given
  BY GivenStays
<1>2. Text /\ TextOrders /\ AllInside /\ Shaped(mem) /\ Followed /\ NothingTaken
  BY DEF History
<1>3. Text' /\ TextOrders' /\ AllInside'
  BY <1>1, <1>2, TextStatic, OrderStays
<1>4. NothingTaken'
  BY <1>2, NothingTakenStays
<1>5. ASSUME UNCHANGED vars PROVE Shaped(mem)' /\ Followed'
  BY <1>2, <1>5, FollowedStutters
<1>6. ASSUME Host PROVE Shaped(mem)' /\ Followed'
  BY <1>2, <1>6, HostFollows
<1>7. ASSUME NEW k \in Enqueued, NEW x \in Grid(k), RunItem(k, x) PROVE Shaped(mem)' /\ Followed'
  BY <1>2, <1>7, RunItemFollows
<1>8. Shaped(mem)' /\ Followed'
  BY <1>5, <1>6, <1>7 DEF Next, Device
<1> QED
  BY <1>3, <1>4, <1>8 DEF History

LEMMA HistoryKept ==
  Inv /\ Kernels /\ BarriersMet /\ (OrdersLoops => History) /\ [Next]_vars => (OrdersLoops => History)'
<1> SUFFICES ASSUME Inv, Kernels, BarriersMet, OrdersLoops => History, [Next]_vars
             PROVE  (OrdersLoops => History)'
  OBVIOUS
<1>1. OrdersLoops' = OrdersLoops
  BY GivenStays, OrderStays
<1> QED
  BY <1>1, HistoryStays

LEMMA HistoryEnds ==
  ASSUME Inv, History, AllFinished
  PROVE  mem = Sequential
<1> DEFINE N == Len(program)
           end == N + 1
<1>1. Text /\ Shaped(mem) /\ Followed
  BY DEF History
<1>2. N \in Nat /\ Commands = 1 .. N
      /\ \A j \in Commands : Len(Body(j)) \in Nat /\ DOMAIN Body(j) = 1 .. Len(Body(j))
  BY <1>1, Texts
<1>3. next = end
  BY <1>1, <1>2, ReachedInOrder DEF AllFinished
<1>4. Reached(end, 0)
  BY <1>3 DEF Reached, Place
<1>5. ASSUME NEW j \in Commands, NEW b \in DOMAIN Body(j), NEW x, NEW v, NEW e, Sets(Body(j)[b], x, v, e)
      PROVE  HasExecuted(j, b, x) /\ NotAfter(j, b, end, 0)
  <2>1. j < next /\ j < end
    BY <1>2, <1>3
  <2>2. ASSUME IsDevice(j) PROVE b <= items[j][x]
    <3>1. x \in Grid(j)
      BY <1>5, <2>2, Setters
    <3>2. Finished(j)
      BY <2>1, <2>2 DEF AllFinished, Enqueued
    <3>3. items[j][x] = Len(Body(j))
      BY <2>2, <3>1, <3>2 DEF Finished, Body
    <3> QED
      BY <1>2, <3>3
  <2> QED
    BY <2>1, <2>2 DEF HasExecuted, NotAfter
<1>6. \A v, e : Settled(v, e, end, 0)
  BY <1>5 DEF Settled
<1>7. Stage(end, 0) = Sequential
  <2>1. Stage(end, 0) = InTurn[end - 1] /\ end - 1 = N
    BY <1>2, Stages
  <2> QED
    BY <2>1 DEF Sequential
<1>8. \A v \in Arrays, e \in Elements : mem[v][e] = Sequential[v][e]
  BY <1>1, <1>4, <1>6, <1>7 DEF Followed
<1>9. Shaped(Sequential)
  <2>1. N \in 0 .. N
    BY <1>2
  <2> QED
    BY <1>1, <2>1, StagesShaped DEF Sequential
<1> HIDE DEF end
<1>10. \A v \in Arrays : [e \in Elements |-> mem[v][e]] = [e \in Elements |-> Sequential[v][e]]
  BY <1>8
<1>11. [v \in Arrays |-> [e \in Elements |-> mem[v][e]]] = [v \in Arrays |-> [e \in Elements |-> Sequential[v][e]]]
  BY <1>10
<1> QED
  BY <1>1, <1>9, <1>11, Zenon DEF Shaped

(* For arrays of every size, under every order of commands and work-items   *)
(* and on both runtimes: when everything has run, memory is what the        *)
(* commands would have left one after the other, if the text of a program   *)
(* orders what conflicts and no work-items add atomically to one element.   *)
THEOREM SequentialMemoryHolds == Spec /\ Synchronized /\ NoAtomics => []SequentialMemory
<1> DEFINE H == OrdersLoops => History
<1>1. Init /\ Synchronized /\ NoAtomics => H
  BY HistoryBegins
<1>2. Inv /\ Kernels /\ BarriersMet /\ H /\ [Next]_vars => H'
  BY HistoryKept
<1>3. Inv /\ H => SequentialMemory
  BY HistoryEnds DEF SequentialMemory
<1> HIDE DEF H
<1> QED
  BY <1>1, <1>2, <1>3, InitInv, StepInv, KernelsGiven, BarriersStay, KernelsStay, PTL DEF Spec

(* What the host compares is what it would compare in the history. *)
LEMMA ComparisonsFollow ==
  ASSUME Inv, Text, HostOrdered, Shaped(mem), Followed,
         ~Blocked, next \in Commands, program[next].op = "verify"
  PROVE  Mismatches(mem, next) = Mismatches(InTurn[next - 1], next)
<1> DEFINE V == Reads(next) \cup Writes(next)
           past == InTurn[next - 1]
<1>1. Agree(mem, past, V)
  <2>1. next \in {1} \cup {k + 1 : k \in Commands}
    BY Zenon DEF Inv, Control
  <2>2. ASSUME NEW k \in Devices, k < next
        PROVE  k \in FinishedWith(HostWaited(next)) \/ ~HostConflict(k, next)
    BY <2>1, <2>2, Zenon DEF HostOrdered
  <2>3. ASSUME NEW k, ~HostConflict(k, next) PROVE Writes(k) \cap V = {}
    BY <2>3 DEF HostConflict, HostReads
  <2> QED
    BY <2>2, <2>3, HostFinds
<1>2. ASSUME NEW s \in Statements(next) PROVE Touches(s, V)
  BY DEF Touches, Reads, Writes
<1> HIDE DEF V, past
<1>3. ASSUME NEW s \in Statements(next), NEW x
      PROVE  mem[s.to] = past[s.to] /\ Value(mem, s, x, 0) = Value(past, s, x, 0)
  BY <1>1, <1>2, ValuesAgree DEF Agree, Touches
<1>4. Mismatches(mem, next) = Mismatches(past, next)
  BY <1>3 DEF Mismatches
<1> QED
  BY <1>4 DEF past

(* For arrays of every size, under every order of commands and work-items   *)
(* and on both runtimes: a host that waits for what it reads finds no error *)
(* that it would not find if the commands were executed one after the       *)
(* other, so that whatever they compute right in turn is reported right.   *)
THEOREM VerifiedHolds == Spec /\ Synchronized /\ NoAtomics /\ []VerifiedInTurn => []Verified
<1> DEFINE H == OrdersLoops => History
           T == Ordered => HostOrdered
<1>1. Init /\ Synchronized /\ NoAtomics => H
  BY HistoryBegins
<1>2. Inv /\ Kernels /\ BarriersMet /\ H /\ [Next]_vars => H'
  BY HistoryKept
<1>3. Init /\ Synchronized => T
  BY TextHolds
<1>4. T /\ [Next]_vars => T'
  BY TextHolds
<1>5. Init => Verified
  BY DEF Init, Verified
<1>6. Inv /\ H /\ T /\ VerifiedInTurn /\ Verified /\ [Next]_vars => Verified'
  <2> SUFFICES ASSUME Inv, H, T, VerifiedInTurn, Verified, [Next]_vars PROVE Verified'
    OBVIOUS
  <2>1. UNCHANGED given
    BY GivenStays
  <2>2. Ordered' = Ordered /\ name' = name
    BY <2>1, OrderStays DEF given
  <2> SUFFICES ASSUME Ordered, name # "bench" PROVE errors' = 0
    BY <2>2, Zenon DEF Verified
  <2>3. errors = 0
    BY DEF Verified
  <2>4. CASE errors' = errors
    BY <2>3, <2>4
  <2>5. CASE HostVerifies
    <3>1. ~Blocked /\ next \in Commands /\ program[next].op = "verify"
      BY <2>5 DEF HostVerifies, HostAt
    <3>2. Text /\ Shaped(mem) /\ Followed /\ HostOrdered
      BY Zenon DEF History, OrdersLoops
    <3>3. Mismatches(mem, next) = Mismatches(InTurn[next - 1], next)
      BY <3>1, <3>2, ComparisonsFollow
    <3>4. Mismatches(mem, next) = {}
      BY <3>1, <3>3, Zenon DEF VerifiedInTurn
    <3>5. errors' = errors + Cardinality({})
      BY <2>5, <3>4, Zenon DEF HostVerifies
    <3> QED
      BY <2>3, <3>5, FS_EmptySet
  <2> QED
    BY <2>4, <2>5 DEF Next, Device, RunItem, Host, HostEnqueues, HostWaits, HostWrites, HostFrees, vars
<1> HIDE DEF H, T
<1> QED
  BY <1>1, <1>2, <1>3, <1>4, <1>5, <1>6, InitInv, StepInv, KernelsGiven, BarriersStay, KernelsStay, PTL DEF Spec

------------------------------------------------------------------------------
(* Convolution, for images of every size: neither version leaves the image, *)
(* no two work-items write the same element, and the two versions read the *)
(* same pixels if the image is square.                                     *)


(* The element of a row of width W at a column: in an image of H rows it is *)
(* in the image.                                                           *)
LEMMA RowMajorInImage ==
  ASSUME NEW W \in Nat, NEW H \in Nat, NEW r \in 0 .. H - 1, NEW c \in 0 .. W - 1
  PROVE  r * W + c \in 0 .. H * W - 1
<1>1. r * W \in Nat /\ (H - 1 - r) * W \in Nat
  <2>1. r \in Nat /\ H - 1 - r \in Nat
    OBVIOUS
  <2>2. \A a, b \in Nat : a * b \in Nat
    BY SMT
  <2>. QED  BY <2>1, <2>2
<1>2. H * W = r * W + (H - 1 - r) * W + W
  BY SMT
<1>3. H * W \in Nat
  BY SMT
<1>. QED  BY <1>1, <1>2, <1>3

(* And it is that of no other row and column. *)
LEMMA RowMajorInjective ==
  ASSUME NEW W \in Nat,
         NEW r \in Nat, NEW c \in 0 .. W - 1, NEW s \in Nat, NEW d \in 0 .. W - 1,
         r * W + c = s * W + d
  PROVE  r = s /\ c = d
<1>1. \A a \in Nat \ {0} : a * W >= W
  <2>. SUFFICES ASSUME NEW a \in Nat \ {0} PROVE a * W >= W
    OBVIOUS
  <2>1. a * W = (a - 1) * W + W
    BY SMT
  <2>2. a - 1 \in Nat /\ (a - 1) * W >= 0
    BY SMT
  <2>. QED  BY <2>1, <2>2, SMT
<1>2. r * W \in Int /\ s * W \in Int
  BY SMT
<1>3. CASE r > s
  <2>1. r * W = s * W + (r - s) * W
    BY SMT
  <2>2. (r - s) * W >= W /\ (r - s) * W \in Int
    BY <1>1, <1>3
  <2>. QED  BY <1>2, <2>1, <2>2
<1>4. CASE s > r
  <2>1. s * W = r * W + (s - r) * W
    BY SMT
  <2>2. (s - r) * W >= W /\ (s - r) * W \in Int
    BY <1>1, <1>4
  <2>. QED  BY <1>2, <2>1, <2>2
<1>5. CASE r = s
  BY <1>2, <1>5
<1>. QED  BY <1>3, <1>4, <1>5

(* Off the border, every element that convolve_cpu reads is in the image. *)
THEOREM CpuReadsInImage ==
  ASSUME NEW y \in 0 .. Y - 1, NEW x \in 0 .. X - 1, ~OnBorder(x, y, X, Y),
         NEW n \in 0 .. 2, NEW m \in 0 .. 2
  PROVE  CpuRead(y, x, n, m) \in Image
<1>1. X \in Nat /\ Y \in Nat
  BY ImageAssumption
<1>2. y - 1 + n \in 0 .. Y - 1 /\ x - 1 + m \in 0 .. X - 1
  BY <1>1 DEF OnBorder
<1>3. (y - 1 + n) * X + (x - 1 + m) \in 0 .. Y * X - 1
  BY <1>1, <1>2, RowMajorInImage
<1>4. Y * X = X * Y
  BY <1>1, SMT
<1>. QED  BY <1>3, <1>4 DEF CpuRead, Image

(* So is every element that the kernel of convolve_gpu reads. *)
THEOREM GpuReadsInImage ==
  ASSUME NEW i0 \in 0 .. X - 1, NEW i1 \in 0 .. Y - 1, ~OnBorder(i0, i1, X, Y),
         NEW i \in 0 .. 2, NEW j \in 0 .. 2
  PROVE  GpuRead(i0, i1, i, j) \in Image
<1>1. X \in Nat /\ Y \in Nat
  BY ImageAssumption
<1>2. i0 - 1 + i \in 0 .. X - 1 /\ i1 - 1 + j \in 0 .. Y - 1
  BY <1>1 DEF OnBorder
<1>. QED  BY <1>1, <1>2, RowMajorInImage DEF GpuRead, GpuElement, Image

(* Work-items with different indices write different elements: the kernel   *)
(* needs no barrier, whatever the image.                                   *)
THEOREM WorkItemsWriteApart ==
  ASSUME NEW i0 \in 0 .. X - 1, NEW i1 \in 0 .. Y - 1,
         NEW j0 \in 0 .. X - 1, NEW j1 \in 0 .. Y - 1,
         GpuElement(i0, i1) = GpuElement(j0, j1)
  PROVE  i0 = j0 /\ i1 = j1
<1>1. Y \in Nat /\ i0 \in Nat /\ j0 \in Nat
  BY ImageAssumption
<1>2. i0 * Y + i1 = j0 * Y + j1
  BY DEF GpuElement
<1>. QED  BY <1>1, <1>2, RowMajorInjective

(* Host and kernel compute an element from the same pixels, tap for tap, if *)
(* and only if the image is square: the one takes X for the length of a    *)
(* row, the other Y.                                                       *)
THEOREM SameTapsIffSquare ==
  ASSUME NEW y \in 0 .. Y - 1, NEW x \in 0 .. X - 1,
         NEW i0 \in 0 .. X - 1, NEW i1 \in 0 .. Y - 1,
         CpuElement(y, x) = GpuElement(i0, i1)
  PROVE  (\A n, m \in 0 .. 2 : CpuRead(y, x, n, m) = GpuRead(i0, i1, n, m)) <=> X = Y
<1>1. X \in Nat /\ Y \in Nat
  BY ImageAssumption
<1>. DEFINE p == y * X + x
<1>2. p \in Int /\ i0 * Y + i1 = p
  BY <1>1 DEF CpuElement, GpuElement
<1>3. ASSUME NEW n \in 0 .. 2, NEW m \in 0 .. 2
      PROVE  /\ CpuRead(y, x, n, m) = p + (n - 1) * X + (m - 1)
             /\ GpuRead(i0, i1, n, m) = p + (n - 1) * Y + (m - 1)
  <2>1. (y - 1 + n) * X = y * X + (n - 1) * X
    BY <1>1, SMT
  <2>2. (i0 - 1 + n) * Y = i0 * Y + (n - 1) * Y
    BY <1>1, SMT
  <2>3. y * X \in Int /\ i0 * Y \in Int /\ (n - 1) * X \in Int /\ (n - 1) * Y \in Int
    BY <1>1, SMT
  <2>. QED  BY <1>1, <1>2, <2>1, <2>2, <2>3 DEF CpuRead, GpuRead, GpuElement
<1>4. X = Y => \A n, m \in 0 .. 2 : CpuRead(y, x, n, m) = GpuRead(i0, i1, n, m)
  BY <1>3
<1>5. (\A n, m \in 0 .. 2 : CpuRead(y, x, n, m) = GpuRead(i0, i1, n, m)) => X = Y
  <2>1. /\ CpuRead(y, x, 2, 1) = p + X
        /\ GpuRead(i0, i1, 2, 1) = p + Y
    <3>1. /\ CpuRead(y, x, 2, 1) = p + (2 - 1) * X + (1 - 1)
          /\ GpuRead(i0, i1, 2, 1) = p + (2 - 1) * Y + (1 - 1)
      BY <1>3
    <3>. QED  BY <1>1, <1>2, <3>1
  <2>. QED  BY <1>1, <1>2, <2>1
<1>. QED  BY <1>4, <1>5
==============================================================================
