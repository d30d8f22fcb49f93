---------------------------- MODULE PageMapping ----------------------------
(***************************************************************************)
(* src/apps/page_mapping: for a few numbers of pages, main has a child     *)
(* process create page tables and pages out of an untyped capability, map  *)
(* the pages, protect and unprotect them, and collects the cost of the     *)
(* five phases.  Between two tests it revokes the untyped and hands it out *)
(* again in the same slot.  process_mapping_results of                     *)
(* src/apps/sel4bench/src/page_mapping.c labels the table of results.      *)
(*                                                                         *)
(* A step of the child creates, creates and maps, or maps one object.  The *)
(* cost of a phase is the number of its objects.  Every object takes one   *)
(* unit of the untyped.  Main and child have the same priority.            *)
(***************************************************************************)
EXTENDS Kernel, FiniteSets, Sequences

CONSTANTS
  Runs,           \* RUNS
  NPages,         \* the npage of page_mapping_benchmark_params, a sequence
  PagePerTable,   \* PAGE_PER_TABLE
  UntypedSize,    \* objects the untyped has room for
  CSpaceSize      \* slots of the child's cspace

NPHASE == 5
Test == 1..Len(NPages)

\* The untyped and the cspace have room for every test and its tables.
PageMappingAssumption ==
  /\ Runs \in Nat \ {0} /\ PagePerTable \in Nat \ {0}
  /\ NPages \in Seq(Nat \ {0}) /\ NPages # <<>>
  /\ UntypedSize \in Nat
  /\ \A j \in Test : UntypedSize >= NPages[j] + NPages[j] \div PagePerTable + 3
  /\ CSpaceSize \in Nat /\ CSpaceSize >= UntypedSize + 2

VARIABLES
  levels,       \* NUM_PT_LEVELS
  topMapped,    \* is the second level table of START_ADDR there already?
  cspace,       \* slot of the child's cspace -> what it holds
  next_free,    \* process.cspace_next_free
  used,         \* units taken out of the untyped
  tables,       \* the page tables mapped around START_ADDR
  rights,       \* page -> rights it is mapped with, or "none"
  run, test, k, \* main's loop counters
  results,      \* benchmarks_result
  phase, i, free_slot, page_ptr_start, cost,   \* the child's variables
  mr,           \* main's message registers
  failed        \* has an assertion failed?

childvars == <<phase, i, free_slot, page_ptr_start, cost>>
memvars == <<cspace, used, tables, rights>>
loopvars == <<run, test, k>>
vars == <<tcb, pc, active, levels, topMapped, memvars, next_free, loopvars, results,
          childvars, mr, failed>>

Main == "main"
Proc == "proc"
Ep == "result_ep"
npage == NPages[test]
Page == UNION {0..NPages[j] - 1 : j \in Test}
FirstSlot == 1      \* where the endpoint goes; the untyped is next

L2 == <<"L2", 0>>
L1 == <<"L1", 0>>
Table(q) == <<"pt", q>>

TopTables == IF topMapped THEN {L2} ELSE {}

Init ==
  /\ levels \in {2, 3, 4}
  /\ topMapped \in BOOLEAN /\ (levels < 4 => topMapped)
  /\ tcb = [t \in {Main, Proc} |-> IF t = Main THEN Running ELSE Inactive]
  /\ pc = [t \in {Main, Proc} |-> IF t = Main THEN "copy" ELSE "start"]
  /\ active = <<>>
  /\ cspace = [s \in 1..CSpaceSize |-> IF s = FirstSlot THEN "endpoint" ELSE "empty"]
  /\ next_free = FirstSlot + 1
  /\ used = 0 /\ tables = TopTables /\ rights = [p \in Page |-> "none"]
  /\ run = 1 /\ test = 1 /\ k = 1
  /\ results = [j \in Test |-> [q \in 1..NPHASE |-> [r \in 1..Runs |-> 0]]]
  /\ phase = 1 /\ i = 0 /\ free_slot = 0 /\ page_ptr_start = 0 /\ cost = 0
  /\ mr = 0 /\ failed = FALSE

-----------------------------------------------------------------------------
(* The child.                                                              *)

\* untyped_retype_root fails if the slot is taken or the untyped exhausted.
CanRetype(slot) == cspace[slot] = "empty" /\ used < UntypedSize

\* NUM_PAGE_TABLE
PageTables(n) == (n + PagePerTable - 1) \div PagePerTable

\* The tables prepare_page_table installs, from the top.
TableList ==
  (IF levels = 4 THEN <<L2>> ELSE <<>>)
    \o (IF levels >= 3 THEN <<L1>> ELSE <<>>)
    \o [q \in 1..PageTables(npage) |-> Table(q - 1)]

Parent(t) ==
  CASE t = L2 -> {} [] t = L1 -> {L2} [] OTHER -> IF levels = 2 THEN {} ELSE {L1}

\* A table is mapped once, under its parent.  Only an L2 that is there already may
\* fail to be: Map returns seL4_DeleteFirst then (x86_64).  On AArch64 it would map
\* deeper instead; START_ADDR is chosen so that no L2 is there (main.c:14-16).
CanMapTable(t) == t = L2 \/ (t \notin tables /\ Parent(t) \subseteq tables)

prepare_page_table ==
  LET t == TableList[i + 1] IN
  /\ IF CanRetype(free_slot) /\ CanMapTable(t)
     THEN /\ cspace' = [cspace EXCEPT ![free_slot] = "table"]
          /\ used' = used + 1
          /\ tables' = tables \cup {t}
          /\ UNCHANGED failed
     ELSE failed' = TRUE /\ UNCHANGED <<cspace, used, tables>>
  /\ free_slot' = free_slot + 1
  /\ UNCHANGED rights

prepare_pages ==
  /\ IF CanRetype(free_slot)
     THEN /\ cspace' = [cspace EXCEPT ![free_slot] = "page"]
          /\ used' = used + 1
          /\ UNCHANGED failed
     ELSE failed' = TRUE /\ UNCHANGED <<cspace, used>>
  /\ free_slot' = free_slot + 1
  /\ UNCHANGED <<tables, rights>>

\* map_pages, prot_pages and unprot_pages: a page is mapped again to change its rights.
map_pages(r) ==
  /\ IF cspace[page_ptr_start + i] = "page" /\ Table(i \div PagePerTable) \in tables
     THEN rights' = [rights EXCEPT ![i] = r] /\ UNCHANGED failed
     ELSE failed' = TRUE /\ UNCHANGED rights
  /\ UNCHANGED <<cspace, used, tables, free_slot>>

PhaseStep ==
  CASE phase = 1 -> prepare_page_table
    [] phase = 2 -> prepare_pages
    [] phase = 3 -> map_pages("all")
    [] phase = 4 -> map_pages("read")
    [] phase = 5 -> map_pages("all")

PhaseLength == IF phase = 1 THEN Len(TableList) ELSE npage

\* bench_proc: five phases, each timed, each with its result sent to main.
bench_proc ==
  /\ ~failed
  /\ \/ /\ Step(Proc, "start", "phase")
        /\ phase' = 1 /\ i' = 0
        /\ free_slot' = next_free
        /\ UNCHANGED <<tcb, active, memvars, page_ptr_start, cost, mr, failed>>
     \/ /\ Step(Proc, "phase", IF i + 1 = PhaseLength THEN "send" ELSE "phase")
        /\ PhaseStep
        /\ i' = (i + 1) % PhaseLength
        /\ cost' = i + 1
        /\ UNCHANGED <<tcb, active, phase, page_ptr_start, mr>>
     \/ /\ Step(Proc, "send", IF phase = NPHASE THEN "wait" ELSE "phase")
        /\ Send(Proc, Ep)
        /\ mr' = IF tcb[Main] = RecvingOn(Ep) THEN cost ELSE mr
        /\ phase' = IF phase = NPHASE THEN phase ELSE phase + 1
        /\ page_ptr_start' = IF phase = 1 THEN free_slot ELSE page_ptr_start
        /\ UNCHANGED <<memvars, i, free_slot, cost, failed>>
     \/ /\ Step(Proc, "wait", "off_call_stack")
        /\ Recv(Proc, Ep)
        /\ UNCHANGED <<memvars, childvars, mr, failed>>
  /\ UNCHANGED <<levels, topMapped, next_free, loopvars, results>>

-----------------------------------------------------------------------------
(* The main thread.                                                        *)

\* sel4utils_copy_path_to_process takes the next slot of the child's cspace.
CopyUntyped ==
  /\ Step(Main, "copy", "spawn")
  /\ failed' = (failed \/ cspace[next_free] # "empty")
  /\ cspace' = [cspace EXCEPT ![next_free] = "untyped"]
  /\ next_free' = next_free + 1
  /\ k' = 1
  /\ UNCHANGED <<tcb, active, used, tables, rights, run, test, results, childvars, mr>>

\* benchmark_spawn_process starts the child at its entry point.
Spawn ==
  /\ pc[Main] = "spawn"
  /\ pc' = [pc EXCEPT ![Main] = "get", ![Proc] = "start"]
  /\ SetState(Proc, Running)
  /\ UNCHANGED <<active, memvars, next_free, loopvars, results, childvars, mr, failed>>

GetResult ==
  /\ Step(Main, "get", "got")
  /\ Recv(Main, Ep)
  /\ mr' = IF tcb[Proc] = SendingTo(Ep) THEN cost ELSE mr
  /\ UNCHANGED <<memvars, next_free, loopvars, results, childvars, failed>>

Record ==
  /\ Step(Main, "got", IF k = NPHASE THEN "revoke" ELSE "get")
  /\ results' = [results EXCEPT ![test][k][run] = mr]
  /\ k' = IF k = NPHASE THEN k ELSE k + 1
  /\ UNCHANGED <<tcb, active, memvars, next_free, run, test, childvars, mr, failed>>

\* Mutant: the objects are deleted one by one, and the next test takes new slots.
Revoke_KeepSlot ==
  /\ Step(Main, "revoke", "suspend")
  /\ cspace' = [s \in DOMAIN cspace |-> IF s = FirstSlot THEN cspace[s] ELSE "empty"]
  /\ tables' = TopTables /\ rights' = [p \in Page |-> "none"]
  /\ UNCHANGED <<tcb, active, used, next_free, loopvars, results, childvars, mr, failed>>

\* vka_cnode_revoke deletes the child's copy of the untyped and all that was made of
\* it; the slot is handed out again.
Revoke ==
  /\ Step(Main, "revoke", "suspend")
  /\ cspace' = [s \in DOMAIN cspace |-> IF s = FirstSlot THEN cspace[s] ELSE "empty"]
  /\ used' = 0 /\ tables' = TopTables /\ rights' = [p \in Page |-> "none"]
  /\ next_free' = next_free - 1
  /\ UNCHANGED <<tcb, active, loopvars, results, childvars, mr, failed>>

SuspendProc ==
  /\ test' = IF test = Len(NPages) THEN 1 ELSE test + 1
  /\ run' = IF test' = 1 THEN run + 1 ELSE run
  /\ Step(Main, "suspend", IF run' > Runs THEN "finished" ELSE "copy")
  /\ SetState(Proc, Inactive)
  /\ UNCHANGED <<active, memvars, next_free, k, results, childvars, mr, failed>>

MainStep ==
  /\ \/ CopyUntyped
     \/ Spawn
     \/ GetResult
     \/ Record
     \/ Revoke
     \/ SuspendProc
  /\ UNCHANGED <<levels, topMapped>>

Done ==
  /\ pc[Main] = "finished"
  /\ UNCHANGED vars

Next ==
  \/ tcb[Main] = Running /\ MainStep
  \/ tcb[Proc] = Running /\ bench_proc
  \/ Done

Spec == Init /\ [][Next]_vars

-----------------------------------------------------------------------------
(* The table of results, and the properties.                               *)

\* Mutant: the sizes alternate from row to row.
npage_col_Alternate(row) == NPages[(row % Len(NPages)) + 1]

\* process_mapping_results: the two columns of labels and the flattened results.
npage_col(row) == NPages[(row \div NPHASE) + 1]
phase_col(row) == (row % NPHASE) + 1
row_results(row) == results[(row \div NPHASE) + 1][(row % NPHASE) + 1]

Work(n, p) == IF p = 1 THEN levels - 2 + PageTables(n) ELSE n

(***************************************************************************)
(* No assertion of bench_proc fails, in whatever order the tests follow    *)
(* each other: the slots the child counts on are empty, the untyped is not *)
(* exhausted, and every page has its table, with two, three or four levels *)
(* of tables.  An L2 may be there before where mapping another one returns *)
(* seL4_DeleteFirst; START_ADDR keeps AArch64 out of this case.            *)
(***************************************************************************)
AssertionsHold == ~failed

(***************************************************************************)
(* In the table that is reported, every row holds the cost of the phase    *)
(* and the number of pages of its labels, in every run.  The results cross *)
(* five rendezvous of two threads of the same priority, the loops of main  *)
(* and the flattening of process_mapping_results.                          *)
(***************************************************************************)
RowsAreLabelled ==
  pc[Main] = "finished" =>
    \A row \in 0..Len(NPages) * NPHASE - 1 : \A r \in 1..Runs :
      row_results(row)[r] = Work(npage_col(row), phase_col(row))
=============================================================================
