----------------------------- MODULE HostPrograms -----------------------------
(***************************************************************************)
(* The programs of this repository in which a host gives kernels and copies *)
(* to a device and looks at memory that the device writes, as data: each    *)
(* program is a sequence of commands of the host, each kernel a sequence of *)
(* statements that its work-items execute.  AcceleratorViews runs them.     *)
(***************************************************************************)
EXTENDS Convolution, Sequences, FiniteSets

CONSTANT num  \* elements of an array, and work-items of a kernel

ASSUME NumAssumption == num \in Nat \ {0}

Indices == 0 .. num - 1
Same    == [x \in Indices |-> x]

(* What the work-item x reads: times * array[at[x]], for the x that at is   *)
(* defined for.  Through a pointer p it reads array[p[at[x]]].              *)
Read(array, at)           == [array |-> array, at |-> at, pointer |-> "none", times |-> 1]
Through(array, p, at)     == [Read(array, at) EXCEPT !.pointer = p]
Whole(arrays)             == {Read(v, Same) : v \in arrays}

(* A statement: the work-item x sets to[at[x]] to add[x] plus the sum of    *)
(* what it reads, modulo 2^w if the type is w bits wide; the x that at is   *)
(* not defined for pass.  A synced one comes after a barrier of its tile.   *)
Assign(to, at, reads, add) ==
  [to |-> to, at |-> at, from |-> reads, add |-> add, modulus |-> 0, synced |-> FALSE,
   atomic |-> FALSE]

Set(to, from, add) == Assign(to, Same, Whole(from), [x \in Indices |-> add])
Copy(to, from)     == Set(to, {from}, 0)
Synced(s)          == [s EXCEPT !.synced = TRUE]
Modulo(s, m)       == [s EXCEPT !.modulus = m]

(* Scalars have the place of the last index: only its work-item writes one. *)
Scalar(to, value)  == Assign(to, [x \in {num - 1} |-> x], {}, [x \in {num - 1} |-> value])
------------------------------------------------------------------------------
(* Commands.  barrier(view, after, command) waits for the futures in after  *)
(* before the command; a lambda takes captures by value when it is enqueued. *)
Barrier(view, after, body)  == [op |-> "enqueue", view |-> view, after |-> after,
                                body |-> body, captures |-> {}]
Enqueue(view, body)         == Barrier(view, {}, body)
Capturing(view, vars, body) == [Barrier(view, {}, body) EXCEPT !.captures = vars]

(* What the host does itself (loops, and copies that return when they are   *)
(* done), what it compares, what it frees, what it waits for.               *)
HostSet(body)     == [op |-> "host", body |-> body]
Verify(body)      == [op |-> "verify", body |-> body]
Free(arrays)      == [op |-> "free", arrays |-> arrays]
Wait(commands)    == [op |-> "wait", after |-> commands]
WaitView(view)    == [op |-> "waitView", view |-> view]

(* array_view::synchronize_async: a copy to the host that waits for the    *)
(* kernels that write the view, and for no other.                          *)
Synchronize(to, from) == [op |-> "synchronize", view |-> "none", after |-> {},
                          body |-> <<Copy(to, from)>>, captures |-> {}]
------------------------------------------------------------------------------
(* kalmar_hc/async_pfe/async.cpp *)
AddTo        == <<Set("da", {"da", "db"}, 0)>>
Increment(v) == <<Set(v, {v}, 1)>>

single_view_inorder ==
  <<Enqueue("av", AddTo), Enqueue("av", Increment("db")), Wait({2})>>

multiple_view_inorder ==
  <<Enqueue("av1", AddTo), Barrier("av2", {1}, Increment("db")), Wait({2})>>

single_view_outoforder ==
  <<Enqueue("outOfOrder", AddTo), Barrier("outOfOrder", {1}, Increment("db")), Wait({2})>>

single_view_outoforder_independent_kernels ==
  <<Enqueue("outOfOrder", Increment("da")), Enqueue("outOfOrder", Increment("db")),
    WaitView("outOfOrder")>>

multiple_view_inorder_with_copy ==
  <<Enqueue("av1", Increment("da")), Enqueue("av1", <<Copy("db", "da")>>),
    Barrier("av2", {2}, <<Copy("dc", "db")>>), Wait({3})>>

single_view_out_of_order_with_copy ==
  <<Enqueue("outOfOrder", Increment("da")),
    Barrier("outOfOrder", {1}, <<Copy("db", "da")>>),
    Barrier("outOfOrder", {1}, <<Copy("dc", "da")>>), WaitView("outOfOrder")>>

pitfall_race_condition ==
  <<Enqueue("av", <<Scalar("i", 100)>>), Capturing("av", {"i"}, <<Set("da", {}, 0)>>)>>

pitfall_race_condition_2 ==
  <<Enqueue("av", <<Scalar("i", 100)>>),
    [Capturing("av", {"i"}, <<Set("da", {}, 0)>>) EXCEPT !.after = {1}]>>
------------------------------------------------------------------------------
(* compile_link: a kernel on raw pointers also writes a flag, whose view   *)
(* the host synchronises.  k is the place of the kernel in its program.    *)
(* The third test does not clear a, which holds what the second left.      *)
AddVectors == <<Set("a", {"b", "c"}, 0)>>

FlaggedKernel(flag, k) ==
  <<Enqueue("default", AddVectors \o <<Scalar(flag, 1)>>), Synchronize("flag", flag), Wait({k + 1}),
    Verify(AddVectors)>>

compile_link ==
  FlaggedKernel("flag_v", 1) \o
  <<HostSet(<<Set("a", {}, 0)>>)>> \o FlaggedKernel("lib_flag_v", 6) \o
  <<Synchronize("flag", "flag_v"), Wait({10})>> \o FlaggedKernel("flag_v", 12) \o
  <<Free({"a", "b", "c"})>>
------------------------------------------------------------------------------
(* Black-Scholes: two results for each input. *)
BlackScholes(call, put, input) == <<Set(call, {input}, 1), Set(put, {input}, 2)>>

VerifyBlackScholes == Verify(BlackScholes("gpuCall", "gpuPut", "input"))

(* The view of zeroArray is synchronised when it is destroyed. *)
zeroArrays ==
  <<Enqueue("default", <<Set("v", {}, 0)>>), Synchronize("gpuCall", "v"), Wait({2}),
    Enqueue("default", <<Set("w", {}, 0)>>), Synchronize("gpuPut", "w"), Wait({5})>>

runBlackScholesArrayView == zeroArrays \o
  <<Enqueue("default", <<Copy("inputView", "input")>>),
    Enqueue("default", BlackScholes("callView", "putView", "inputView")),
    Synchronize("gpuCall", "callView"), Synchronize("gpuPut", "putView"),
    Wait({9}), Wait({10}), VerifyBlackScholes>>

runBlackScholesArray == zeroArrays \o
  <<Enqueue("default", <<Copy("inputArray", "input")>>), Wait({7}),
    Enqueue("default", BlackScholes("callArray", "putArray", "inputArray")),
    Enqueue("default", <<Copy("gpuCall", "callArray")>>),
    Enqueue("default", <<Copy("gpuPut", "putArray")>>),
    Wait({10}), Wait({11}), Free({"inputArray", "callArray", "putArray"}), VerifyBlackScholes>>

runBlackScholesSVM == zeroArrays \o
  <<Enqueue("default", BlackScholes("gpuCall", "gpuPut", "input")),
    Synchronize("flag", "flag_v"), Wait({8}), VerifyBlackScholes>>

(* OpenCL: a queue in order.  A buffer on host memory is mapped to read it. *)
runBlackScholesZeroCopy ==
  <<Enqueue("queue", BlackScholes("callBuffer", "putBuffer", "input")),
    Enqueue("queue", <<Copy("gpuPut", "putBuffer")>>),
    Enqueue("queue", <<Copy("gpuCall", "callBuffer")>>),
    Wait({2, 3}), VerifyBlackScholes>>

runBlackScholesBufferCopy ==
  <<Enqueue("queue", <<Copy("inputBuffer", "input")>>),
    Enqueue("queue", BlackScholes("callBuffer", "putBuffer", "inputBuffer")),
    Enqueue("queue", <<Copy("gpuPut", "putBuffer")>>),
    Enqueue("queue", <<Copy("gpuCall", "callBuffer")>>),
    WaitView("queue"), VerifyBlackScholes>>
------------------------------------------------------------------------------
(* Tests on raw pointers: the kernel writes output[x] = f(x), and the host  *)
(* has no view and no future to wait on before it reads.                    *)
RawKernel(kernel) == <<Enqueue("default", <<kernel>>), Verify(<<kernel>>)>>
Output(f)         == Assign("output", Same, {}, [x \in Indices |-> f[x]])

static_array == RawKernel(Set("c", {"a", "b"}, 0))

test_forall == RawKernel(Set("dc", {"da", "db"}, 0))

(* T has m values, or more than are used if m is 0; the host adds as T.    *)
runTypeTest(m) == RawKernel(Modulo(Set("output", {"inputA", "inputB"}, 0), m))
runBoolTest    == RawKernel(Output([x \in Indices |-> IF x % 2 # 0 THEN x ELSE x + 100]))

(* Where goto enters the additions, which fall through the labels below.   *)
result(i) ==
  LET added == <<100, 200, 300, 400, 500>>
      from  == CASE i % 7 = 0 -> 5 [] i % 5 = 0 -> 4 [] i % 3 = 0 -> 3 [] i % 2 = 0 -> 2
                 [] OTHER -> 1
      value[n \in 1 .. 6] == IF n = 6 THEN 0 ELSE added[n] + value[n + 1]
  IN  value[from]

test_goto == RawKernel(Output([x \in Indices |-> result(x)]))

(* The level at which i has been shifted to 0. *)
test_recursive_function ==
  LET r[i \in Nat] == IF i = 0 THEN 0 ELSE 1 + r[i \div 2]
  IN  RawKernel(Output([x \in Indices |-> r[x]]))

(* A field of bits bits. *)
test_bitfield(bits) == RawKernel(Modulo(Output(Same), 2 ^ bits))

(* Every work-item adds to one atomic variable. *)
fetch_add(to, from) ==
  [Assign(to, [x \in Indices |-> 0], {Read(to, [x \in Indices |-> 0]), Read(from, Same)},
          [x \in Indices |-> 0]) EXCEPT !.atomic = TRUE]

test_static_member ==
  LET Datum(x) == Read("data", [y \in {0} |-> x])
      sum      == Assign("sum", [y \in {0} |-> 0], {Datum(x) : x \in Indices}, [y \in {0} |-> 0])
      Equal    == Assign("s_data", [y \in {0} |-> 0], {Read("sum", [y \in {0} |-> 0])},
                         [y \in {0} |-> 0])
  IN  <<HostSet(<<sum>>), Enqueue("default", <<fetch_add("s_data", "data")>>), Verify(<<Equal>>)>>
------------------------------------------------------------------------------
(* Views and arrays.  A kernel has the data of the views it reads copied to *)
(* the device first; a view is synchronised when it is destroyed.          *)
ViewSum(c, a, b, from, with) ==
  <<Copy(a, from), Copy(b, with), Set(c, {a, b}, 0)>>

IsSum(c, a, b) == Verify(<<Set(c, {a, b}, 0)>>)

vectoradd ==
  <<Enqueue("default", ViewSum("cc", "aa", "bb", "a", "b")),
    Synchronize("c", "cc"), Wait({2}), IsSum("c", "a", "b")>>

vectoradd_arrayview ==
  <<Enqueue("hc", ViewSum("av_c", "av_a", "av_b", "va", "vb")), Wait({1}),
    Synchronize("vc", "av_c"), Wait({3}), IsSum("vc", "va", "vb")>>

(* hsa_memory_copy returns when the copy is done. *)
vectoradd_boltzmann ==
  <<HostSet(<<Copy("device_a", "va"), Copy("device_b", "vb")>>),
    Enqueue("hc", <<Set("device_c", {"device_a", "device_b"}, 0)>>), Wait({2}),
    HostSet(<<Copy("vc", "device_c")>>), Free({"device_a", "device_b", "device_c"}),
    IsSum("vc", "va", "vb")>>

(* Mutant of copytest: the host does not wait for the copying kernel.      *)
MutantCopytest ==
  <<HostSet(<<Copy("device_a", "va")>>), Enqueue("hc", <<Copy("device_b", "device_a")>>),
    HostSet(<<Copy("vb", "device_b")>>), Verify(<<Copy("vb", "va")>>), Free({"device_a", "device_b"})>>

copytest ==
  <<HostSet(<<Copy("device_a", "va")>>), Enqueue("hc", <<Copy("device_b", "device_a")>>),
    Wait({2}), HostSet(<<Copy("vb", "device_b")>>), Verify(<<Copy("vb", "va")>>),
    Free({"device_a", "device_b"})>>

(* ITER is 2.  The views are synchronised without one waiting for another. *)
add ==
  <<Enqueue("default", ViewSum("cc", "aa", "bb", "a", "b")),
    Enqueue("default", <<Set("cc", {"aa", "bb"}, 0)>>),
    Synchronize("a", "aa"), Synchronize("b", "bb"), Synchronize("c", "cc"),
    Wait({3}), Wait({4}), Wait({5}), IsSum("c", "a", "b")>>

add_array ==
  <<Enqueue("av", <<Copy("aa", "a")>>), Wait({1}), Enqueue("av", <<Copy("bb", "b")>>), Wait({3}),
    Enqueue("av", <<Set("cc", {"aa", "bb"}, 0)>>), Enqueue("av", <<Set("cc", {"aa", "bb"}, 0)>>),
    Enqueue("av", <<Copy("c", "cc")>>), Wait({7}), Free({"aa", "bb", "cc"}), IsSum("c", "a", "b")>>

(* Memory that host and device share: the kernel adds 1 to each element.   *)
am_alloc ==
  <<HostSet(<<Assign("v1", Same, {}, Same)>>), Enqueue("hc", Increment("v1")), Wait({2}),
    Verify(<<Assign("v1", Same, {}, [x \in Indices |-> x + 1])>>), Free({"v1"})>>

(* bar, barfoo, foobar and foo differ in how the kernel captures the view;  *)
(* k is the place of the memset before the call.                           *)
Incremented(k) ==
  <<HostSet(<<Set("a", {}, 0)>>), Enqueue("default", <<Copy("aa", "a"), Set("aa", {"aa"}, 1)>>),
    Synchronize("a", "aa"), Wait({k + 2}), Free({"aa"}), Verify(<<Set("a", {}, 1)>>)>>

array_view_diagnostics == Incremented(1) \o Incremented(7) \o Incremented(13) \o Incremented(19)
------------------------------------------------------------------------------
(* Kernels with tile memory; the work-items are one tile. *)
Shifted(array, by) == Read(array, [x \in Indices |-> (x + by) % num])

(* Mutant of group_mem: the barrier after the second array is missing.     *)
MutantGroupMem ==
  <<Enqueue("default",
      <<Copy("av_a", "a"), Copy("av_b", "b"), Copy("ts_s", "av_a"), Synced(Copy("dyn_ts_s", "av_b")),
        Assign("av_c", Same, {Shifted("ts_s", 1), Shifted("dyn_ts_s", 2)}, [x \in Indices |-> 0])>>),
    Synchronize("c", "av_c"), Wait({2})>>

group_mem ==
  <<Enqueue("default",
      <<Copy("av_a", "a"), Copy("av_b", "b"), Copy("ts_s", "av_a"), Synced(Copy("dyn_ts_s", "av_b")),
        Synced(Assign("av_c", Same, {Shifted("ts_s", 1), Shifted("dyn_ts_s", 2)},
                      [x \in Indices |-> 0]))>>),
    Synchronize("c", "av_c"), Wait({2})>>

(* Two work-items, with barriers outside the branches that only one takes. *)
barrier_bug ==
  LET Pair(f)   == [x \in {0, 1} |-> f[x + 1]]
      One(x, e) == [y \in {x} |-> e]
  IN  <<Enqueue("default",
          <<Assign("t", Pair(<<0, 1>>), {}, Pair(<<0, 1>>)),
            Synced(Assign("t", One(0, 0), {}, One(0, 123))), Assign("t", One(0, 1), {}, One(0, 321)),
            Synced(Assign("val", Pair(<<0, 1>>), {Read("t", One(1, 1))}, Pair(<<456, 0>>))),
            Synced(Assign("av_data", Pair(<<0, 1>>), {Read("val", Pair(<<0, 1>>))}, Pair(<<0, 0>>)))>>),
        Synchronize("output", "av_data"), Wait({2})>>
------------------------------------------------------------------------------
(* Convolution: work-item p has the index <<p \div Y, p % Y>>.  The weights *)
(* are 1 to 9, so that no two taps can be confused.                        *)
Weighted(array, element, n, m) == [Read(array, element) EXCEPT !.times = MaskElement(n, m) + 1]

(* On the border, to is what from is; element[t] has no p of the border.   *)
Convolved(to, from, element) ==
  LET Inner == DOMAIN element[<<0, 0>>]
  IN  Assign(to, [p \in Image |-> p],
             {Weighted(from, element[t], t[1], t[2]) : t \in Taps}
               \cup {Read(from, [p \in Image \ Inner |-> p])},
             [p \in Image |-> 0])

convolve_gpu ==
  LET Inner == {p \in Image : ~OnBorder(p \div Y, p % Y, X, Y)}
  IN  Convolved("output_view", "input_view",
        [t \in Taps |-> [p \in Inner |-> GpuRead(p \div Y, p % Y, t[1], t[2])]])

convolve_cpu ==
  LET Inner == {p \in Image : ~OnBorder(p % X, p \div X, X, Y)}
  IN  Convolved("cpu_output", "image",
        [t \in Taps |-> [p \in Inner |-> CpuRead(p \div X, p % X, t[1], t[2])]])

InImage(to, from) == Assign(to, [p \in Image |-> p], {Read(from, [p \in Image |-> p])},
                            [p \in Image |-> 0])

convolution ==
  <<Enqueue("default", <<InImage("input_view", "image")>>), Enqueue("default", <<convolve_gpu>>),
    [Synchronize("output", "output_view") EXCEPT !.body = <<InImage("output", "output_view")>>],
    Wait({3}), HostSet(<<convolve_cpu>>), Verify(<<InImage("output", "cpu_output")>>),
    Free({"image", "output", "cpu_output"})>>
------------------------------------------------------------------------------
(* list.cpp: nodes are numbers.  llist has the nodes 0 .. Nodes-1, the node *)
(* Nodes is &llist[Nodes], beyond its end, which main writes as well.       *)
Nodes   == 3
newitem == Nodes + 1

On(v, e)          == [y \in {0} |-> e]
Point(to, e, read) == Assign(to, On(to, e), read, On(to, 0))
Value10(to)       == Assign(to, On(to, newitem), {}, On(to, 10))

(* newitem->next = llist[Nodes-1].next; llist[Nodes-1].next = newitem; info *)
list_insert_new ==
  <<Point("next", newitem, {Read("next", On("next", Nodes - 1))}),
    Assign("next", On("next", Nodes - 1), {}, On("next", newitem)),
    Value10("info")>>

(* The sum over the first Nodes + 1 nodes from llist; l points to a node.   *)
Walk(l, sum) ==
  LET Add     == Point(sum, 0, {Read(sum, On(sum, 0)), Through("info", l, On(l, 0))})
      Advance == Point(l, 0, {Through("next", l, On(l, 0))})
  IN  [n \in 1 .. 2 * (Nodes + 1) |-> IF n % 2 = 1 THEN Add ELSE Advance]

(* Mutant of list: the host does not undo the insertion of the kernel.     *)
MutantList ==
  <<Enqueue("default", list_insert_new \o Walk("l", "sum_gpu")),
    HostSet(list_insert_new \o Walk("l_cpu", "sum_cpu")),
    Verify(<<Point("sum_gpu", 0, {Read("sum_cpu", On("sum_cpu", 0))})>>), Free({"next", "info"})>>

list ==
  <<Enqueue("default", list_insert_new \o Walk("l", "sum_gpu")),
    HostSet(<<Point("next", Nodes - 1, {Read("next", On("next", newitem))})>>),
    HostSet(list_insert_new \o Walk("l_cpu", "sum_cpu")),
    Verify(<<Point("sum_gpu", 0, {Read("sum_cpu", On("sum_cpu", 0))})>>), Free({"next", "info"})>>
------------------------------------------------------------------------------
(* bench.cpp: BLOCKSIZE, WGSIZE and the literal 64 are Side, and there are  *)
(* global_threads work-items; size is that of a.  A work-item adds up Side  *)
(* elements and writes the sum to every Side * global_threads-th element.   *)
Side           == 2
global_threads == 2 * Side

Column(array, first) ==
  {Read(array, [t \in DOMAIN first |-> first[t] + Side * i]) : i \in 0 .. Side - 1}

Top(t) == (t \div Side) * Side * Side + (t % Side)

for_loop(size) ==
  LET Threads == 0 .. global_threads - 1
      Written(n, t) == t + n * global_threads * Side
      Rounds  == {n \in 0 .. size : Written(n, 0) < size}
      Round(n) ==
        LET D == {t \in Threads : Written(n, t) < size}
        IN  Assign("av_b", [t \in D |-> Written(n, t)],
                   Column("av_a", [t \in D |-> Top(t)]),
                   [t \in D |-> 0])
  IN  [n \in 1 .. Cardinality(Rounds) |-> Round(n - 1)]

bench(size) ==
  LET All   == 0 .. size - 1
      Sums  == 0 .. size \div Side - 1
      CopyAll(to, from) == Assign(to, [e \in All |-> e], {Read(from, [e \in All |-> e])},
                                  [e \in All |-> 0])
      cpu   == Assign("cpu", [e \in Sums |-> e],
                      Column("a", [e \in Sums |-> Top(e)]),
                      [e \in Sums |-> 0])
      Equal == Assign("b", [e \in Sums |-> e], {Read("cpu", [e \in Sums |-> e])},
                      [e \in Sums |-> 0])
  IN  <<HostSet(<<cpu>>), HostSet(<<CopyAll("av_a", "a"), CopyAll("av_b", "b")>>),
        Enqueue("default", for_loop(size)), Wait({3}), HostSet(<<CopyAll("b", "av_b")>>),
        Verify(<<Equal>>)>>
------------------------------------------------------------------------------
(* What an array holds at first: a number of its own plus the index, next  *)
(* the pointers of a circular list, and every other array 0.               *)
Starts ==
  [da |-> 1, db |-> 10, dc |-> 100, a |-> 1, b |-> 10, c |-> 100, va |-> 1, vb |-> 10,
   input |-> 1, image |-> 1, inputA |-> 0, inputB |-> 100, data |-> 1, info |-> 0]

(* llist[k].next = &llist[k + 1], and llist[Nodes].next = &llist[0]. *)
Next0(e) == IF e < Nodes THEN e + 1 ELSE 0

Start(v, e) == IF v = "next" THEN Next0(e) ELSE IF v \in DOMAIN Starts THEN Starts[v] + e ELSE 0

Programs ==
  [inorder         |-> single_view_inorder,
   twoViews        |-> multiple_view_inorder,
   outOfOrder      |-> single_view_outoforder,
   independent     |-> single_view_outoforder_independent_kernels,
   twoViewsCopy    |-> multiple_view_inorder_with_copy,
   outOfOrderCopy  |-> single_view_out_of_order_with_copy,
   pitfall         |-> pitfall_race_condition,
   pitfallBarrier  |-> pitfall_race_condition_2,
   compileLink     |-> compile_link,
   ampArrayView    |-> runBlackScholesArrayView,
   ampArray        |-> runBlackScholesArray,
   ampSVM          |-> runBlackScholesSVM,
   oclZeroCopy     |-> runBlackScholesZeroCopy,
   oclBufferCopy   |-> runBlackScholesBufferCopy,
   staticArray     |-> static_array,
   forall          |-> test_forall,
   narrowType      |-> runTypeTest(4),
   wideType        |-> runTypeTest(0),
   boolType        |-> runBoolTest,
   goto            |-> test_goto,
   recursion       |-> test_recursive_function,
   bitfield        |-> test_bitfield(1),
   staticMember    |-> test_static_member,
   vectoradd       |-> vectoradd,
   arrayview       |-> vectoradd_arrayview,
   boltzmann       |-> vectoradd_boltzmann,
   copytest        |-> copytest,
   simpleView      |-> add,
   simpleArray     |-> add_array,
   sharedMemory    |-> am_alloc,
   diagnostics     |-> array_view_diagnostics,
   groupMemory     |-> group_mem,
   barrierBug      |-> barrier_bug,
   convolution     |-> convolution,
   deviceList      |-> list,
   bench           |-> bench(2 * global_threads * Side),
   benchFits       |-> bench(global_threads * Side)]

(* The elements of the arrays of a program, where they are not num. *)
Sizes == [convolution |-> X * Y, deviceList |-> Nodes + 2,
          bench |-> 2 * global_threads * Side, benchFits |-> global_threads * Side]
==============================================================================
