------------------------------- MODULE PsTree -------------------------------
(***************************************************************************)
(* The process tree system call of project1/problem1 (pstree_module.c) and *)
(* the program that prints its answer (pstree_test.c), among processes     *)
(* that fork, exec, exit and are reaped.                                   *)
(*                                                                         *)
(* A process is its pid.  0 is init_task, 1 is init.                       *)
(***************************************************************************)
EXTENDS Integers, Sequences, FiniteSets, SequencesExt, FiniteSetsExt

CONSTANTS
    Pids,     \* the pids, 0 and 1 among them
    Bits,     \* the values of the word of flags 8 bytes before ->pid
    Garbage,  \* the values of an uninitialised pid_t on the stack
    MaxForks, \* bound on the forks
    MaxCalls  \* bound on the system calls

ASSUME PidAssumption == Pids \subseteq Nat /\ {0, 1} \subseteq Pids /\ IsFiniteSet(Pids)
ASSUME BitsAssumption == Bits \subseteq Nat /\ 0 \in Bits
ASSUME StackAssumption == Garbage \subseteq Int /\ Garbage # {}
ASSUME BoundAssumption == MaxForks \in Nat /\ MaxCalls \in Nat

VARIABLES
    life,     \* "free", "live", or "zombie" until the parent waits for it
    parent,   \* ->parent
    children, \* ->children, from .next on
    bits,     \* ->did_exec, ->sched_reset_on_fork and their neighbours, as a word
    forks,    \* the forks so far
    calls,    \* the system calls so far
    buf,      \* the array the system call filled
    line,     \* i of print_tree, an index of buf, and 0 when nothing is printed
    depth,    \* depth of print_tree
    stack     \* parent_pids of print_tree

treeVars == <<life, parent, children, bits, forks>>
psVars == <<treeVars, calls, buf, line, depth, stack>>

prinfo == [parent_pid : Pids, pid : Pids, first_child_pid : Pids,
           next_sibling_pid : Pids \cup Bits]

\* parent_pids is as large as the tree can be deep.
Depths == 0 .. Cardinality(Pids)

PsTypeOK ==
    /\ life \in [Pids -> {"free", "live", "zombie"}]
    /\ parent \in [Pids -> Pids]
    /\ children \in [Pids -> Seq(Pids)]
    /\ bits \in [Pids -> Bits]
    /\ forks \in 0 .. MaxForks /\ calls \in 0 .. MaxCalls
    /\ buf \in Seq(prinfo)
    /\ line \in 0 .. Cardinality(Pids)
    /\ depth \in Depths \cup {-1}
    /\ stack \in [Depths -> Pids \cup Garbage]

PsInit ==
    /\ life = [t \in Pids |-> IF t \in {0, 1} THEN "live" ELSE "free"]
    /\ parent = [t \in Pids |-> 0]
    /\ children = [t \in Pids |-> IF t = 0 THEN <<1>> ELSE <<>>]
    /\ bits = [t \in Pids |-> 0]
    /\ forks = 0 /\ calls = 0
    /\ buf = <<>> /\ line = 0 /\ depth = -1
    /\ stack \in [Depths -> Garbage]

-----------------------------------------------------------------------------
(* The tree: each of these holds tasklist_lock for writing *)

\* The child goes to the end of its parent's list.
Fork(p, c) ==
    /\ life[p] = "live" /\ life[c] = "free" /\ forks < MaxForks
    /\ forks' = forks + 1
    /\ life' = [life EXCEPT ![c] = "live"]
    /\ parent' = [parent EXCEPT ![c] = p]
    /\ children' = [children EXCEPT ![p] = Append(@, c)]
    /\ bits' = [bits EXCEPT ![c] = 0]
    /\ UNCHANGED <<calls, buf, line, depth, stack>>

Exec(p) ==
    /\ life[p] = "live" /\ p # 0 /\ bits[p] = 0
    /\ \E b \in Bits \ {0} : bits' = [bits EXCEPT ![p] = b]
    /\ UNCHANGED <<life, parent, children, forks, calls, buf, line, depth, stack>>

\* init inherits the children.
Exit(p) ==
    /\ life[p] = "live" /\ p \notin {0, 1}
    /\ life' = [life EXCEPT ![p] = "zombie"]
    /\ parent' = [t \in Pids |-> IF t \in Range(children[p]) THEN 1 ELSE parent[t]]
    /\ children' = [children EXCEPT ![p] = <<>>, ![1] = @ \o children[p]]
    /\ UNCHANGED <<bits, forks, calls, buf, line, depth, stack>>

Reap(p) ==
    /\ life[p] = "zombie"
    /\ life' = [life EXCEPT ![p] = "free"]
    /\ children' = [children EXCEPT ![parent[p]] = RemoveFirst(@, p)]
    /\ UNCHANGED <<parent, bits, forks, calls, buf, line, depth, stack>>

-----------------------------------------------------------------------------
(* sys_pstreecall *)

\* list_entry(t->sibling.next, struct task_struct, sibling)->pid.  For the last
\* child .next is the list head in the parent: the task_struct "around" it as a
\* sibling begins 8 bytes early, and so does what is read as its pid.
NextEntryPid(t) ==
    LET s == children[parent[t]]
        i == CHOOSE k \in DOMAIN s : s[k] = t
    IN IF i = Len(s) THEN bits[parent[t]] ELSE s[i + 1]

\* Only init_task is in no list of children.
NextSiblingPid(t) ==
    IF t = 0 \/ parent[t] = NextEntryPid(t) THEN 0 ELSE NextEntryPid(t)

convert(t) ==
    [parent_pid |-> parent[t], pid |-> t,
     first_child_pid |-> IF children[t] = <<>> THEN 0 ELSE Head(children[t]),
     next_sibling_pid |-> NextSiblingPid(t)]

\* Mutant: the children are listed before their parent.
dfs_Postorder(t) ==
    LET walk[n \in 0 .. Cardinality(Pids)] == [u \in Pids |->
            IF n = 0 THEN <<>>
            ELSE FlattenSeq([i \in DOMAIN children[u] |-> walk[n - 1][children[u][i]]]) \o <<u>>]
    IN walk[Cardinality(Pids)][t]

\* Mutant: the loop stops before the last child.
dfs_SkipLast(t) ==
    LET walk[n \in 0 .. Cardinality(Pids)] == [u \in Pids |->
            IF n = 0 THEN <<>>
            ELSE <<u>> \o FlattenSeq([i \in DOMAIN Front(children[u]) |->
                    walk[n - 1][children[u][i]]])]
    IN walk[Cardinality(Pids)][t]

\* The order in which dfs converts the tasks below t; n bounds the recursion.
dfs(t) ==
    LET walk[n \in 0 .. Cardinality(Pids)] == [u \in Pids |->
            IF n = 0 THEN <<>>
            ELSE <<u>> \o FlattenSeq([i \in DOMAIN children[u] |-> walk[n - 1][children[u][i]]])]
    IN walk[Cardinality(Pids)][t]

\* The whole walk holds tasklist_lock for reading.  __MAX_BUFSIZE is taken to be
\* large enough: the code does not look.
sys_pstreecall ==
    /\ line = 0 /\ calls < MaxCalls
    /\ calls' = calls + 1
    /\ buf' = [i \in DOMAIN dfs(0) |-> convert(dfs(0)[i])]
    /\ line' = 1 /\ depth' = -1
    /\ stack' \in [Depths -> Garbage]
    /\ UNCHANGED treeVars

-----------------------------------------------------------------------------
(* print_tree: one step per line, of which buf[0] gets none *)

\* Mutant: the search for the parent ends one too early.
Former_OffByOne(p) == {j \in 1 .. depth - 2 : stack[j] = p}

\* The places of parent p on the stack below the top.
Former(p) == {j \in 1 .. depth - 1 : stack[j] = p}

PrintLine ==
    LET p == buf[line + 1].parent_pid
    IN /\ line > 0 /\ line < Len(buf)
       /\ line' = line + 1
       /\ \/ /\ p = 0
             /\ depth' = 0 /\ UNCHANGED stack
          \/ /\ p # 0 /\ p = stack[depth]
             /\ UNCHANGED <<depth, stack>>
          \/ /\ p # 0 /\ p # stack[depth] /\ Former(p) # {}
             /\ depth' = Min(Former(p)) /\ UNCHANGED stack
          \/ /\ p # 0 /\ p # stack[depth] /\ Former(p) = {}
             /\ depth' = depth + 1
             /\ stack' = [stack EXCEPT ![depth'] = p]
       /\ UNCHANGED <<treeVars, calls, buf>>

\* The program ends, and its stack with it.
Return ==
    /\ line = Len(buf) /\ line > 0
    /\ line' = 0 /\ buf' = <<>> /\ depth' = -1
    /\ stack' \in [Depths -> Garbage]
    /\ UNCHANGED <<treeVars, calls>>

PsNext ==
    \/ \E p \in Pids : Exec(p) \/ Exit(p) \/ Reap(p) \/ \E c \in Pids : Fork(p, c)
    \/ sys_pstreecall \/ PrintLine \/ Return

PsSpec == PsInit /\ [][PsNext]_psVars

-----------------------------------------------------------------------------
(* Properties *)

Position(p) == CHOOSE i \in DOMAIN buf : buf[i].pid = p

\* The answer is one state of the tree, in depth-first order: every process that
\* was there is listed once, its parent before it, with only processes of the
\* parent's subtree between them, whatever forks and exits meanwhile.
DepthFirst ==
    /\ \A i, j \in DOMAIN buf : buf[i].pid = buf[j].pid => i = j
    /\ \A i \in DOMAIN buf \ {1} :
        \E k \in 1 .. i - 1 :
            /\ buf[k].pid = buf[i].parent_pid
            /\ \A m \in k + 1 .. i : Position(buf[m].parent_pid) >= k

ListsEveryProcess ==
    [][sys_pstreecall => {buf'[i].pid : i \in DOMAIN buf'} = {p \in Pids : life[p] # "free"}]_psVars

\* The number of ancestors of the process of an entry, init_task left out.
Ancestors(i) ==
    LET up[k \in DOMAIN buf] == IF buf[k].parent_pid = 0 THEN 0
                                ELSE up[Position(buf[k].parent_pid)] + 1
    IN up[i]

\* print_tree finds the depth of every process from the order of the entries and
\* the pids of the parents alone, if what it reads in the unwritten parent_pids[0]
\* is not by chance the pid of a process: one is taken for the parent on top.
DepthIsRight == line > 1 /\ stack[0] \notin Pids \ {0} => depth = Ancestors(line)

(* What a comment says and the code does not do *)

\* A process without a next sibling gets next_sibling_pid 0 (pstree_module.c).
LastSiblingHasNone ==
    \A i \in DOMAIN buf :
        (\A j \in DOMAIN buf : buf[j].parent_pid = buf[i].parent_pid => j <= i)
            => buf[i].next_sibling_pid = 0

=============================================================================
