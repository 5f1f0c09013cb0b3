------------------------------- MODULE Timer -------------------------------
(***************************************************************************)
(* The software timers, kernel/timer.c, on the doubly linked list of       *)
(* includes/awa/ds/llist.h, at the level of the prev and next fields.      *)
(*                                                                         *)
(* Two activities share the list: kernel code that registers timers        *)
(* (timer_run) and the handler of the APIC timer interrupt (timer_update). *)
(* The handler runs with interrupts off, so no step of timer_run falls     *)
(* into it; timer_run runs with interrupts on, so the handler may run      *)
(* between any two of its stores.                                          *)
(*                                                                         *)
(* Two defects of the code bound what the list survives (README):          *)
(* llist_delete leaves a prev field wrong, so two one-shot timers next to  *)
(* each other are one too many (MaxOneShot); and a one-shot timer that     *)
(* fires in the middle of an append takes the node away that the append    *)
(* has just read (OneShotRace).                                            *)
(***************************************************************************)
EXTENDS Integers, Sequences, FiniteSets

CONSTANTS
  Nodes,          \* heap blocks for struct lx_timer
  HEAD,           \* timer_ctx->active_timers
  Seconds,        \* arguments of timer_run_second
  FREQ,           \* running_frequency
  WORD,           \* 2^32: counters are uint32_t
  MaxOneShot,     \* one-shot timers pending at a time (bound)
  MaxPeriodic,    \* periodic timers (bound)
  OneShotRace     \* TRUE: ticks inside timer_run also with a one-shot pending

ASSUME TimerAssumption ==
  /\ HEAD \notin Nodes
  /\ Seconds \subseteq Nat /\ FREQ \in Nat /\ WORD \in Nat \ {0}
  /\ MaxOneShot \in Nat /\ MaxPeriodic \in Nat
  /\ OneShotRace \in BOOLEAN

Links == Nodes \cup {HEAD}
Counts == 0 .. (WORD - 1)

VARIABLES
  prev, next,     \* the list: a field of every node
  counter,        \* of struct lx_timer
  deadline,
  periodic,       \* flags & TIMER_MODE_PERIODIC
  allocated,      \* nodes obtained from lxmalloc
  mpc,            \* timer_run: "idle", "read", "back", "elem", "publish"
  elem, after,    \* timer_run: the new node, __llist_add's next
  ipc,            \* timer_update: "none" or "walk"
  pos, n,         \* timer_update: loop variables
  list,           \* history: the registered timers, in list order
  age             \* history: ticks since a timer was registered or fired

fields == <<counter, deadline, periodic>>
main == <<mpc, elem, after>>
isr == <<ipc, pos, n>>
vars == <<prev, next, fields, allocated, main, isr, list, age>>

(* timer_init_context: llist_init_head.                                    *)
Init ==
  /\ prev = [e \in Links |-> e]
  /\ next = [e \in Links |-> e]
  /\ counter = [e \in Nodes |-> 0]
  /\ deadline = [e \in Nodes |-> 0]
  /\ periodic = [e \in Nodes |-> FALSE]
  /\ allocated = {}
  /\ mpc = "idle" /\ elem = HEAD /\ after = HEAD
  /\ ipc = "none" /\ pos = HEAD /\ n = HEAD
  /\ list = <<>>
  /\ age = [e \in Nodes |-> 0]

Listed == {list[k] : k \in 1 .. Len(list)}

(* The sequence s without its element e.                                   *)
Without(s, e) ==
  IF \E k \in 1 .. Len(s) : s[k] = e
  THEN LET k == CHOOSE k \in 1 .. Len(s) : s[k] = e
       IN  [j \in 1 .. (Len(s) - 1) |-> IF j < k THEN s[j] ELSE s[j + 1]]
  ELSE s

Bound(mode) == IF mode THEN MaxPeriodic ELSE MaxOneShot

-----------------------------------------------------------------------------
(* timer_run.  The node is private until its predecessor points to it.     *)

Minus1(c) == (c + WORD - 1) % WORD

TicksOf(second) == (second * FREQ) % WORD

timer_run(ticks, mode) ==
  /\ mpc = "idle" /\ ipc = "none"
  /\ \E t \in Nodes \ allocated :
       /\ allocated' = allocated \cup {t}
       /\ counter' = [counter EXCEPT ![t] = ticks]
       /\ deadline' = [deadline EXCEPT ![t] = ticks]
       /\ periodic' = [periodic EXCEPT ![t] = mode]
       /\ elem' = t
  /\ mpc' = "read"
  /\ UNCHANGED <<prev, next, after, isr, list, age>>

timer_run_second(second, mode) == timer_run(TicksOf(second), mode)

ReadNext ==                                  \* llist_append: head->next
  /\ mpc = "read" /\ ipc = "none"
  /\ after' = next[HEAD]
  /\ mpc' = "back"
  /\ UNCHANGED <<prev, next, fields, allocated, elem, isr, list, age>>

(* Seeded fault: the old first node keeps its prev.                        *)
LinkBack_Missing ==
  /\ mpc = "back" /\ ipc = "none"
  /\ mpc' = "elem"
  /\ UNCHANGED <<prev, next, fields, allocated, elem, after, isr, list, age>>

LinkBack ==                                  \* next->prev = elem
  /\ mpc = "back" /\ ipc = "none"
  /\ prev' = [prev EXCEPT ![after] = elem]
  /\ mpc' = "elem"
  /\ UNCHANGED <<next, fields, allocated, elem, after, isr, list, age>>

(* Seeded fault: the new node still leads to itself.                       *)
LinkElem_NoNext ==
  /\ mpc = "elem" /\ ipc = "none"
  /\ prev' = [prev EXCEPT ![elem] = HEAD]
  /\ mpc' = "publish"
  /\ UNCHANGED <<next, fields, allocated, elem, after, isr, list, age>>

LinkElem ==                                  \* elem->next, elem->prev
  /\ mpc = "elem" /\ ipc = "none"
  /\ next' = [next EXCEPT ![elem] = after]
  /\ prev' = [prev EXCEPT ![elem] = HEAD]
  /\ mpc' = "publish"
  /\ UNCHANGED <<fields, allocated, elem, after, isr, list, age>>

Publish ==                                   \* prev->next = elem
  /\ mpc = "publish" /\ ipc = "none"
  /\ next' = [next EXCEPT ![HEAD] = elem]
  /\ list' = <<elem>> \o list
  /\ age' = [age EXCEPT ![elem] = 0]
  /\ mpc' = "idle" /\ elem' = HEAD /\ after' = HEAD
  /\ UNCHANGED <<prev, fields, allocated, isr>>

llist_append == ReadNext \/ LinkBack \/ LinkElem \/ Publish

-----------------------------------------------------------------------------
(* timer_update, one timer at a time.                                      *)

Tick ==
  /\ ipc = "none"
  /\ mpc = "idle" \/ OneShotRace \/ \A e \in Listed : periodic[e]
  /\ ipc' = "walk"
  /\ pos' = next[HEAD]
  /\ n' = next[next[HEAD]]
  /\ age' = [e \in Nodes |-> IF e \in Listed THEN age[e] + 1 ELSE age[e]]
  /\ UNCHANGED <<prev, next, fields, allocated, main, list>>

(* Seeded fault: the next node is read from the node just processed.       *)
Advance_FromFreed == pos' = next'[pos] /\ n' = next'[next'[pos]]

Advance == pos' = n /\ n' = next'[n]

CountDown ==
  /\ ipc = "walk" /\ pos # HEAD
  /\ Minus1(counter[pos]) # 0
  /\ counter' = [counter EXCEPT ![pos] = Minus1(@)]
  /\ UNCHANGED next /\ Advance
  /\ UNCHANGED <<prev, deadline, periodic, allocated, main, ipc, list, age>>

(* Seeded fault: the counter is not set again.                             *)
FirePeriodic_NoReload ==
  /\ ipc = "walk" /\ pos # HEAD
  /\ Minus1(counter[pos]) = 0 /\ periodic[pos]
  /\ counter' = [counter EXCEPT ![pos] = 0]
  /\ age' = [age EXCEPT ![pos] = 0]
  /\ UNCHANGED next /\ Advance
  /\ UNCHANGED <<prev, deadline, periodic, allocated, main, ipc, list>>

FirePeriodic ==
  /\ ipc = "walk" /\ pos # HEAD
  /\ Minus1(counter[pos]) = 0 /\ periodic[pos]
  /\ counter' = [counter EXCEPT ![pos] = deadline[pos]]
  /\ age' = [age EXCEPT ![pos] = 0]
  /\ UNCHANGED next /\ Advance
  /\ UNCHANGED <<prev, deadline, periodic, allocated, main, ipc, list>>

(* llist_delete: both neighbours get elem->next.                           *)
llist_delete(e) ==
  LET unlinked == [next EXCEPT ![prev[e]] = next[e]]
      back == [prev EXCEPT ![unlinked[e]] = unlinked[e]]
  IN  /\ next' = [unlinked EXCEPT ![e] = e]
      /\ prev' = [back EXCEPT ![e] = e]

(* Seeded fault: the node is not given back to the heap.                   *)
FireOneShot_NotFreed ==
  /\ ipc = "walk" /\ pos # HEAD
  /\ Minus1(counter[pos]) = 0 /\ ~periodic[pos]
  /\ counter' = [counter EXCEPT ![pos] = 0]
  /\ llist_delete(pos)
  /\ list' = Without(list, pos)
  /\ age' = [age EXCEPT ![pos] = 0]
  /\ Advance
  /\ UNCHANGED <<allocated, deadline, periodic, main, ipc>>

FireOneShot ==
  /\ ipc = "walk" /\ pos # HEAD
  /\ Minus1(counter[pos]) = 0 /\ ~periodic[pos]
  /\ counter' = [counter EXCEPT ![pos] = 0]
  /\ llist_delete(pos)
  /\ allocated' = allocated \ {pos}          \* lxfree
  /\ list' = Without(list, pos)
  /\ age' = [age EXCEPT ![pos] = 0]
  /\ Advance
  /\ UNCHANGED <<deadline, periodic, main, ipc>>

EndOfTick ==
  /\ ipc = "walk" /\ pos = HEAD
  /\ ipc' = "none" /\ pos' = HEAD /\ n' = HEAD
  /\ UNCHANGED <<prev, next, fields, allocated, main, list, age>>

timer_update == CountDown \/ FirePeriodic \/ FireOneShot \/ EndOfTick

-----------------------------------------------------------------------------
Pending(mode) == {e \in allocated : periodic[e] = mode}
CanRegister(mode) == Cardinality(Pending(mode)) < Bound(mode)

Next ==
  \/ \E second \in Seconds, mode \in BOOLEAN :
       CanRegister(mode) /\ timer_run_second(second, mode)
  \/ ReadNext
  \/ LinkBack
  \/ LinkElem
  \/ Publish
  \/ Tick
  \/ CountDown
  \/ FirePeriodic
  \/ FireOneShot
  \/ EndOfTick

(* The APIC timer is periodic, so ticks keep coming; a handler that has    *)
(* begun, and timer_run, run on without waiting.                           *)
Spec == Init /\ [][Next]_vars
        /\ WF_vars(Tick) /\ WF_vars(timer_update) /\ SF_vars(llist_append)

-----------------------------------------------------------------------------
(* The list with its head at both ends.                                    *)
Cycle == <<HEAD>> \o list \o <<HEAD>>

(* Whenever the handler may start, and at each of its steps, next leads    *)
(* from the head through all registered timers back to the head            *)
(* (llist.h:76-80): appending publishes a node only when it is linked.     *)
ForwardChain ==
  \A k \in 1 .. (Len(list) + 1) : next[Cycle[k]] = Cycle[k + 1]

(* The handler's loop variables and the list hold no freed timer           *)
(* (timer.c:174-175 frees the node the loop stands on).                    *)
NoUseAfterFree ==
  /\ Listed \subseteq allocated
  /\ {next[e] : e \in Listed \cup {HEAD}} \subseteq allocated \cup {HEAD}
  /\ {pos, n} \subseteq allocated \cup {HEAD}

(* A timer is in the list, or about to be, until it is freed: none is lost *)
(* by a concurrent append or delete.                                       *)
NoTimerLost == allocated = Listed \cup ({elem} \ {HEAD})

(* Between ticks every timer has counted each tick exactly once since it   *)
(* was registered or last fired, and has fired when its time was up        *)
(* (timer.c:163-177); a deadline of 0 ticks is one of 2^32.                *)
Period(e) == IF deadline[e] = 0 THEN WORD ELSE deadline[e]
CountsEveryTick ==
  ipc = "none" =>
    \A e \in Listed :
      age[e] < Period(e) /\ counter[e] = (Period(e) - age[e]) % WORD

(* A timer that has been asked for fires.                                  *)
TimerFires ==
  \A e \in Nodes :
    e \in allocated ~> (ipc = "walk" /\ pos = e /\ Minus1(counter[e]) = 0)

(* llist.h:56: a deleted element is an orphan: nothing in the list leads   *)
(* to it any more.                                                         *)
DeletedIsOrphan ==
  \A e \in Nodes \ allocated : \A k \in 1 .. Len(Cycle) : next[Cycle[k]] # e
=============================================================================
