------------------------------ MODULE FindMax ------------------------------
(***************************************************************************)
(* The fan-out findmax example (src/examples/C/findmax.c, scenario E4).    *)
(* main spawns one find_max coroutine and sends it the size and the start  *)
(* index of the array over a capacity-0 channel; a find_max of more than   *)
(* two elements spawns two children, one per half, each with its own      *)
(* capacity-0 channel, and replies with the larger of their maxima.        *)
(*                                                                         *)
(* A coroutine is named by its path in the spawn tree: main is <<>>, the   *)
(* coroutine it spawns is <<0>>, and the k-th child of p is Append(p, k);  *)
(* the channel of p # <<>> is the one between p and Front(p). A send and   *)
(* the receive it meets on a capacity-0 channel complete together (the     *)
(* Handoff of AbstractChannel, which Channel is checked to refine), so     *)
(* each transfer is one step of both coroutines.                           *)
(***************************************************************************)
EXTENDS Integers, SequencesExt

CONSTANTS
    MAX,    \* the array size main sends (the program's #define MAX)
    Vals    \* the values rand() may return, abstracted to a small set

ASSUME MAX \in Nat \ {0}

(* Levels of find_max below the first one: a coroutine splits while its    *)
(* size exceeds 2, and the larger half, size - size / 2, is the deeper.    *)
RECURSIVE Depth(_)
Depth(n) == IF n <= 2 THEN 0 ELSE 1 + Depth(n - n \div 2)

Node == {<<>>} \cup
        UNION {{<<0>> \o s : s \in [1 .. k -> {0, 1}]} : k \in 0 .. Depth(MAX)}

Main == <<>>

VARIABLES
    array,  \* the global array filled by gen_array_elem
    pc,     \* each coroutine's position; "none" before it is spawned
    size,   \* its local size, as received (main: MAX)
    start,  \* its local start, as received (main: 0)
    mx,     \* its local max[2]
    i,      \* the loop index of its spawning loop
    oob     \* some find_max read array outside 0 .. MAX - 1

vars == <<array, pc, size, start, mx, i, oob>>

(* gen_array_elem: MAX values of rand(). *)
ArrayValues == [0 .. MAX - 1 -> Vals]

(* check_max_elem: no element exceeds max. *)
CheckMaxElem(arr, sz, max) == \A k \in 0 .. sz - 1 : arr[k] <= max

(* Bug variant: the larger half first. *)
SzCeilFirst(sz, k) == IF k = 0 THEN sz - sz \div 2 ELSE sz \div 2

(* sz[k] and st[k] of the k-th half of a segment of find_max. *)
Sz(sz, k) == IF k = 0 THEN sz \div 2 ELSE sz - sz \div 2

(* Bug variant: the second half starts one element late. *)
StOffByOne(st, sz, k) == IF k = 0 THEN st ELSE st + Sz(sz, 0) + 1

St(st, sz, k) == IF k = 0 THEN st ELSE st + Sz(sz, 0)

(* What the parent of c sends it: main sends its own size and start, a     *)
(* find_max the half selected by its loop index.                           *)
SizeFor(c) == IF Front(c) = Main THEN size[Main]
              ELSE Sz(size[Front(c)], Last(c))
StartFor(c) == IF Front(c) = Main THEN start[Main]
               ELSE St(start[Front(c)], size[Front(c)], Last(c))

(* The parent's coroc_chan_recv(ch[k], &max[k]) for child k, in order. *)
RecvSlot(c) == IF Last(c) = 0 THEN "rmax0" ELSE "rmax1"

(* The parent of c is at the send or the receive that meets c's. *)
ParentAt(c, l) == pc[Front(c)] = l /\ i[Front(c)] = Last(c)

-----------------------------------------------------------------------------
Init ==
    /\ array \in ArrayValues
    /\ pc = [p \in Node |-> IF p = Main THEN "spawn" ELSE "none"]
    /\ size = [p \in Node |-> IF p = Main THEN MAX ELSE 0]
    /\ start = [p \in Node |-> 0]
    /\ mx = [p \in Node |-> <<0, 0>>]
    /\ i = [p \in Node |-> 0]
    /\ oob = FALSE

(* coroc_chan_allocate and coroc_coroutine_allocate of child i[p]. *)
Spawn(p) ==
    /\ pc[p] = "spawn"
    /\ pc' = [pc EXCEPT ![p] = "ssz", ![Append(p, i[p])] = "rsize"]
    /\ UNCHANGED <<array, size, start, mx, i, oob>>

(* Bug variant: a one-element segment is taken for an empty one. *)
SendSizeExitOne(c) ==
    /\ pc[c] = "rsize" /\ ParentAt(c, "ssz")
    /\ size' = [size EXCEPT ![c] = SizeFor(c)]
    /\ pc' = [pc EXCEPT ![Front(c)] = "sst",
                        ![c] = IF SizeFor(c) <= 1 THEN "done" ELSE "rstart"]
    /\ UNCHANGED <<array, start, mx, i, oob>>

(* The parent's send of the size meets the child's first recv; a child     *)
(* that gets size <= 0 calls coroc_coroutine_exit(-1).                     *)
SendSize(c) ==
    /\ pc[c] = "rsize" /\ ParentAt(c, "ssz")
    /\ size' = [size EXCEPT ![c] = SizeFor(c)]
    /\ pc' = [pc EXCEPT ![Front(c)] = "sst",
                        ![c] = IF SizeFor(c) <= 0 THEN "done" ELSE "rstart"]
    /\ UNCHANGED <<array, start, mx, i, oob>>

(* The send of the start index meets the child's second recv; the parent's *)
(* loop goes on to the next child, or main to its recv of the result.      *)
SendStart(c) ==
    /\ pc[c] = "rstart" /\ ParentAt(c, "sst")
    /\ start' = [start EXCEPT ![c] = StartFor(c)]
    /\ pc' = [pc EXCEPT ![c] = "read",
                        ![Front(c)] = IF Front(c) # Main /\ Last(c) = 0
                                      THEN "spawn" ELSE "rmax0"]
    /\ i' = IF Front(c) = Main THEN i ELSE [i EXCEPT ![Front(c)] = @ + 1]
    /\ UNCHANGED <<array, size, mx, oob>>

(* max[0] = array[start]; max[1] = array[start + 1], read whatever the     *)
(* size; a read past the array yields whatever the heap holds there.       *)
Read(p) ==
    /\ pc[p] = "read"
    /\ \E v \in Vals :
         LET At(k) == IF k \in 0 .. MAX - 1 THEN array[k] ELSE v
         IN  mx' = [mx EXCEPT ![p] = <<At(start[p]), At(start[p] + 1)>>]
    /\ oob' = (oob \/ start[p] + 1 >= MAX)
    /\ pc' = [pc EXCEPT ![p] = CASE size[p] > 2 -> "spawn"
                                 [] size[p] > 1 -> "cmp"
                                 [] OTHER       -> "reply"]
    /\ i' = [i EXCEPT ![p] = 0]
    /\ UNCHANGED <<array, size, start>>

(* Bug variant: the comparison reversed. *)
CmpInverted(p) ==
    /\ pc[p] = "cmp"
    /\ mx' = [mx EXCEPT ![p][1] = IF @ > mx[p][2] THEN mx[p][2] ELSE @]
    /\ pc' = [pc EXCEPT ![p] = "reply"]
    /\ UNCHANGED <<array, size, start, i, oob>>

(* if (max[0] < max[1]) max[0] = max[1]. *)
Cmp(p) ==
    /\ pc[p] = "cmp"
    /\ mx' = [mx EXCEPT ![p][1] = IF @ < mx[p][2] THEN mx[p][2] ELSE @]
    /\ pc' = [pc EXCEPT ![p] = "reply"]
    /\ UNCHANGED <<array, size, start, i, oob>>

(* The child's send of max[0] meets the parent's recv into max[Last(c)];   *)
(* the child exits. main, after its recv, checks and exits.                *)
Reply(c) ==
    /\ pc[c] = "reply"
    /\ pc[Front(c)] = RecvSlot(c)
    /\ mx' = [mx EXCEPT ![Front(c)][Last(c) + 1] = mx[c][1]]
    /\ pc' = [pc EXCEPT ![c] = "done",
                        ![Front(c)] = CASE Front(c) = Main -> "done"
                                        [] Last(c) = 0     -> "rmax1"
                                        [] OTHER           -> "cmp"]
    /\ UNCHANGED <<array, size, start, i, oob>>

Next ==
    \E p \in Node :
        \/ Spawn(p) \/ Read(p) \/ Cmp(p)
        \/ p # Main /\ (SendSize(p) \/ SendStart(p) \/ Reply(p))

(* The program is finite; weak fairness of Next stands for the scheduler   *)
(* running some ready coroutine (sched_liveness, in the build without the  *)
(* deadlock detector).                                                     *)
Spec == Init /\ [][Next]_vars /\ WF_vars(Next)

-----------------------------------------------------------------------------
TypeOK ==
    /\ array \in ArrayValues
    /\ pc \in [Node -> {"none", "spawn", "ssz", "sst", "rsize", "rstart",
                        "read", "rmax0", "rmax1", "cmp", "reply", "done"}]
    /\ size \in [Node -> 0 .. MAX] /\ start \in [Node -> 0 .. MAX - 1]
    /\ mx \in [Node -> Vals \X Vals] /\ i \in [Node -> 0 .. 2]
    /\ oob \in BOOLEAN

(* main's check_max_elem never prints "The answer is wrong!", and the      *)
(* result it prints is an element of the array (scenario E4).              *)
ResultIsMax ==
    pc[Main] = "done" =>
        /\ CheckMaxElem(array, MAX, mx[Main][1])
        /\ mx[Main][1] \in Range(array)

(* The unconditional read of array[start + 1] in find_max stays inside    *)
(* the array: the halves are split so that a one-element segment is never *)
(* the last one.                                                           *)
NoOutOfBoundsRead == ~oob

(* Every coroutine of the tree, main included, reaches its                 *)
(* coroc_coroutine_exit: no parent waits forever on a child's channel.     *)
Terminates == <>(\A p \in Node : pc[p] \in {"none", "done"})

=============================================================================
