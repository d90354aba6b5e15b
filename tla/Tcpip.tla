-------------------------------- MODULE Tcpip --------------------------------
(***************************************************************************)
(* The tcpip thread and the threads that call into the stack: tcpip.c over *)
(* the unix port's mailboxes and semaphores (sys_arch.c).  Messages are    *)
(* posted to one mailbox, which the tcpip thread empties; its semaphores   *)
(* count to one, so a signal can be lost in an earlier one.  With core     *)
(* locking, callers run the stack themselves under lock_tcpip_core.        *)
(***************************************************************************)
EXTENDS Integers, Sequences, FiniteSets

CONSTANTS
  CALLERS,         \* threads that call into the stack
  SYS_MBOX_SIZE,   \* of the ring: it holds one message less
  API_POOL,        \* MEMP_NUM_TCPIP_MSG_API
  INPKT_POOL,      \* MEMP_NUM_TCPIP_MSG_INPKT
  CORE_LOCKINGS,   \* the values of LWIP_TCPIP_CORE_LOCKING
  TIMERS           \* whether the tcpip thread has timeouts to wait for

VARIABLES
  locking,         \* LWIP_TCPIP_CORE_LOCKING of this build
  q,               \* the ring, from first to last
  wait_send,       \* posters waiting for room
  sem,             \* not_empty, not_full, mutex: each 0 or 1
  core,            \* who has lock_tcpip_core, or "none"
  holder,          \* lwip_core_lock_holder_thread_id
  thr,             \* thread -> [pc, op, msg]
  free             \* pool -> its free elements

tcpipVars == <<locking, q, wait_send, sem, core, holder, thr, free>>

TCPIP == "tcpip_thread"
THREADS == CALLERS \cup {TCPIP}
NONE == "none"

\* The ring holds at least one message; thread names are distinct from "none".
ASSUME TcpipAssumption ==
  /\ IsFiniteSet(CALLERS) /\ TCPIP \notin CALLERS /\ NONE \notin CALLERS
  /\ SYS_MBOX_SIZE \in Nat /\ SYS_MBOX_SIZE >= 2
  /\ API_POOL \in Nat /\ INPKT_POOL \in Nat
  /\ CORE_LOCKINGS \subseteq BOOLEAN /\ TIMERS \in BOOLEAN

EMPTY == [type |-> NONE, from |-> NONE]

\* What a caller does: post and go ("callback"), try to post ("try_callback",
\* "inpkt"), or post and wait for the answer ("call").
PoolOf(op) == IF op = "inpkt" THEN "inpkt" ELSE "api"
Pooled(op) == op \in {"callback", "try_callback", "inpkt"}
Waits(op) == op = "call"
Posts(op) == op \notin {"try_callback", "inpkt"}

Goto(t, pc) == thr' = [thr EXCEPT ![t].pc = pc]
Return(t) == thr' = [thr EXCEPT ![t] = [pc |-> "idle", op |-> NONE, msg |-> EMPTY, signalled |-> FALSE]]

(***************************************************************************)
(* Semaphores: a wait takes the count when it is 1; a signal leaves 1.     *)
(***************************************************************************)
sys_arch_sem_wait(s, S) == sem[s] = 1 /\ sem' = [S EXCEPT ![s] = 0]
sys_sem_signal(s, S) == [S EXCEPT ![s] = 1]

Full == Len(q) >= SYS_MBOX_SIZE - 1

\* Faulty variant: whether the mailbox was empty is looked at after the message is in it.
StoreThenLook(msg) == q' = Append(q, msg) /\ UNCHANGED sem

\* Storing a message signals not_empty when the ring was empty.
StoreIn(msg) ==
  /\ q' = Append(q, msg)
  /\ sem' = IF q = <<>> THEN sys_sem_signal("not_empty", sem) ELSE sem

(***************************************************************************)
(* A caller takes a message from its pool and posts it, or, with core      *)
(* locking, runs the function itself.                                      *)
(***************************************************************************)
\* A message from a pool; without one the caller reports ERR_MEM and nothing changes.
Take(t, op) ==
  /\ thr[t].pc = "idle"
  /\ free[PoolOf(op)] > 0
  /\ free' = [free EXCEPT ![PoolOf(op)] = @ - 1]
  /\ thr' = [thr EXCEPT ![t] = [pc |-> "lock", op |-> op, msg |-> [type |-> op, from |-> t], signalled |-> FALSE]]
  /\ UNCHANGED <<locking, q, wait_send, sem, core, holder>>

tcpip_callback(t) == Take(t, "callback")
tcpip_timeout(t) == Take(t, "callback")
tcpip_untimeout(t) == Take(t, "callback")
tcpip_try_callback(t) == Take(t, "try_callback")
tcpip_inpkt(t) == Take(t, "inpkt")

\* The message is the caller's own, with a semaphore to wait on.
Call(t) ==
  /\ thr[t].pc = "idle"
  /\ thr' = [thr EXCEPT ![t] = [pc |-> IF locking THEN "core_lock" ELSE "lock", op |-> "call",
                                msg |-> [type |-> "call", from |-> t], signalled |-> FALSE]]
  /\ UNCHANGED <<locking, q, wait_send, sem, core, holder, free>>

tcpip_api_call(t) == Call(t)
tcpip_send_msg_wait_sem(t) == Call(t)
tcpip_callback_wait(t) == Call(t)

\* The mailbox's mutex is a semaphore of its own.
LockMbox(t) ==
  /\ thr[t].pc \in {"lock", "relock", "fetch"}
  /\ sys_arch_sem_wait("mutex", sem)
  /\ wait_send' = IF thr[t].pc = "relock" THEN wait_send - 1 ELSE wait_send
  /\ Goto(t, IF thr[t].pc = "fetch" THEN "fetching" ELSE "posting")
  /\ UNCHANGED <<locking, q, core, holder, free>>

UnlockMbox(t) ==
  /\ thr[t].pc \in {"posted", "fetched", "full"}
  /\ sem' = sys_sem_signal("mutex", sem)
  /\ CASE thr[t].pc = "posted" -> IF Waits(thr[t].op) THEN Goto(t, "wait_sem") ELSE Return(t)
       [] thr[t].pc = "fetched" -> Goto(t, IF locking THEN "core_lock" ELSE "handle")
       [] OTHER -> Goto(t, "wait_not_full")
  /\ UNCHANGED <<locking, q, wait_send, core, holder, free>>

\* Room is awaited in a loop; wait_send tells the tcpip thread to signal.
sys_mbox_post(t) ==
  /\ thr[t].pc = "posting" /\ Posts(thr[t].op)
  /\ IF Full
       THEN wait_send' = wait_send + 1 /\ Goto(t, "full") /\ UNCHANGED <<q, sem>>
       ELSE StoreIn(thr[t].msg) /\ Goto(t, "posted") /\ UNCHANGED wait_send
  /\ UNCHANGED <<locking, core, holder, free>>

AwaitRoom(t) ==
  /\ thr[t].pc = "wait_not_full"
  /\ sys_arch_sem_wait("not_full", sem)
  /\ Goto(t, "relock")
  /\ UNCHANGED <<locking, q, wait_send, core, holder, free>>

\* A full mailbox refuses: the caller frees the message and reports ERR_MEM.
sys_mbox_trypost(t) ==
  /\ thr[t].pc = "posting" /\ ~Posts(thr[t].op)
  /\ IF Full
       THEN /\ sem' = sys_sem_signal("mutex", sem)
            /\ free' = [free EXCEPT ![PoolOf(thr[t].op)] = @ + 1]
            /\ Return(t) /\ UNCHANGED q
       ELSE StoreIn(thr[t].msg) /\ Goto(t, "posted") /\ UNCHANGED free
  /\ UNCHANGED <<locking, wait_send, core, holder>>

\* The semaphore of a waiting call; its message is gone when this returns.
AwaitAnswer(t) ==
  /\ thr[t].pc = "wait_sem" /\ thr[t].signalled
  /\ Return(t)
  /\ UNCHANGED <<locking, q, wait_send, sem, core, holder, free>>

(***************************************************************************)
(* lock_tcpip_core, and the id of its holder that sys_check_core_locking   *)
(* compares with the running thread.                                       *)
(***************************************************************************)
sys_lock_tcpip_core(t) ==
  \/ /\ thr[t].pc = "core_lock" /\ core = NONE
     /\ core' = t /\ Goto(t, "core_locked")
     /\ UNCHANGED <<locking, q, wait_send, sem, holder, free>>
  \/ /\ thr[t].pc = "core_locked"
     /\ holder' = t
     /\ Goto(t, IF t # TCPIP THEN "run" ELSE IF thr[t].msg = EMPTY THEN "timeouts" ELSE "handle")
     /\ UNCHANGED <<locking, q, wait_send, sem, core, free>>
\* Faulty variant: the mutex is released before the holder is forgotten.
UnlockThenForget(t) ==
  \/ /\ thr[t].pc = "core_unlock"
     /\ core' = NONE /\ Goto(t, "core_unlocking")
     /\ UNCHANGED <<locking, q, wait_send, sem, holder, free>>
  \/ /\ thr[t].pc = "core_unlocking"
     /\ holder' = NONE
     /\ IF t = TCPIP THEN Goto(t, "fetch") ELSE Return(t)
     /\ UNCHANGED <<locking, q, wait_send, sem, core, free>>

sys_unlock_tcpip_core(t) ==
  \/ /\ thr[t].pc = "core_unlock"
     /\ holder' = NONE /\ Goto(t, "core_unlocking")
     /\ UNCHANGED <<locking, q, wait_send, sem, core, free>>
  \/ /\ thr[t].pc = "core_unlocking"
     /\ core' = NONE
     /\ IF t = TCPIP THEN Goto(t, "fetch") ELSE Return(t)
     /\ UNCHANGED <<locking, q, wait_send, sem, holder, free>>

\* The caller runs the function itself.
RunFunction(t) ==
  /\ thr[t].pc = "run"
  /\ Goto(t, "core_unlock")
  /\ UNCHANGED <<locking, q, wait_send, sem, core, holder, free>>

(***************************************************************************)
(* The tcpip thread.                                                       *)
(***************************************************************************)
\* An empty ring is awaited without the mutex; taking a message signals
\* not_full when someone waits for room.
sys_arch_mbox_fetch ==
  LET t == TCPIP
  IN /\ thr[t].pc = "fetching"
     /\ IF q = <<>>
          THEN sem' = sys_sem_signal("mutex", sem) /\ Goto(t, "wait_not_empty") /\ UNCHANGED q
          ELSE /\ q' = Tail(q)
               /\ sem' = IF wait_send > 0 THEN sys_sem_signal("not_full", sem) ELSE sem
               /\ thr' = [thr EXCEPT ![t].pc = "fetched", ![t].msg = Head(q)]
     /\ UNCHANGED <<locking, wait_send, core, holder, free>>

\* With timeouts pending the wait may end with SYS_ARCH_TIMEOUT.
cond_wait ==
  LET t == TCPIP
  IN /\ thr[t].pc = "wait_not_empty"
     /\ \/ sys_arch_sem_wait("not_empty", sem) /\ Goto(t, "fetch")
        \/ TIMERS /\ Goto(t, IF locking THEN "core_lock" ELSE "timeouts") /\ UNCHANGED sem
     /\ UNCHANGED <<locking, q, wait_send, core, holder, free>>

\* tcpip_mbox_fetch: sys_check_timeouts, then again.
tcpip_mbox_fetch ==
  LET t == TCPIP
  IN /\ thr[t].pc = "timeouts"
     /\ Goto(t, IF locking THEN "core_unlock" ELSE "fetch")
     /\ UNCHANGED <<locking, q, wait_send, sem, core, holder, free>>

\* The function runs; pooled messages go back, waiting callers are woken.
tcpip_thread_handle_msg ==
  LET t == TCPIP
      m == thr[t].msg
      done == [thr EXCEPT ![t] = [pc |-> IF locking THEN "core_unlock" ELSE "fetch", op |-> NONE,
                                  msg |-> EMPTY, signalled |-> FALSE]]
  IN /\ thr[t].pc = "handle"
     /\ free' = IF Pooled(m.type) THEN [free EXCEPT ![PoolOf(m.type)] = @ + 1] ELSE free
     /\ thr' = IF Waits(m.type) THEN [done EXCEPT ![m.from].signalled = TRUE] ELSE done
     /\ UNCHANGED <<locking, q, wait_send, sem, core, holder>>

\* tcpip_init, then tcpip_thread up to its first fetch.
tcpip_init ==
  /\ locking \in CORE_LOCKINGS
  /\ q = <<>>
  /\ wait_send = 0
  /\ sem = [not_empty |-> 0, not_full |-> 0, mutex |-> 1]
  /\ core = NONE
  /\ holder = NONE
  /\ thr = [t \in THREADS |-> [pc |-> IF t = TCPIP THEN "fetch" ELSE "idle", op |-> NONE, msg |-> EMPTY, signalled |-> FALSE]]
  /\ free = [pool \in {"api", "inpkt"} |-> IF pool = "api" THEN API_POOL ELSE INPKT_POOL]

ThreadStep(t) ==
  \/ LockMbox(t) \/ UnlockMbox(t)
  \/ sys_mbox_post(t) \/ AwaitRoom(t) \/ sys_mbox_trypost(t) \/ AwaitAnswer(t)
  \/ sys_lock_tcpip_core(t) \/ sys_unlock_tcpip_core(t) \/ RunFunction(t)

TcpipNext ==
  \/ \E t \in CALLERS : \/ tcpip_callback(t) \/ tcpip_timeout(t) \/ tcpip_untimeout(t)
                        \/ tcpip_try_callback(t) \/ tcpip_inpkt(t)
                        \/ tcpip_api_call(t) \/ tcpip_send_msg_wait_sem(t) \/ tcpip_callback_wait(t)
  \/ \E t \in THREADS : ThreadStep(t)
  \/ sys_arch_mbox_fetch \/ cond_wait \/ tcpip_mbox_fetch \/ tcpip_thread_handle_msg

TcpipSpec == tcpip_init /\ [][TcpipNext]_tcpipVars

(***************************************************************************)
(* Properties.                                                             *)
(***************************************************************************)
InMbox(t) == thr[t].pc \in {"posting", "fetching", "posted", "fetched", "full"}

\* No wake-up is lost although the semaphores count to one: while the tcpip
\* thread waits on not_empty unsignalled the ring is empty, and while posters
\* wait on not_full unsignalled there is something in the ring, or on its way
\* into it, whose fetch will signal them (sys_mbox_post, sys_arch_mbox_fetch).
\* The mailbox is one that a single thread fetches from, as tcpip's is: with two,
\* one signal of not_empty may stand for two messages.
NobodySleepsOnWork ==
  /\ thr[TCPIP].pc = "wait_not_empty" /\ sem.not_empty = 0 => q = <<>>
  /\ (\E t \in CALLERS : thr[t].pc = "wait_not_full") /\ sem.not_full = 0 =>
       \/ q # <<>>
       \/ \E t \in CALLERS : thr[t].pc \in {"relock", "posting"}

\* Whoever runs stack code is the thread sys_check_core_locking expects: the
\* recorded holder with core locking, the tcpip thread without.
HolderIsRunner ==
  \A t \in THREADS : thr[t].pc \in {"run", "handle", "timeouts"} => IF locking THEN holder = t ELSE t = TCPIP

\* Every message of a pool is free, with the thread that took it, in the ring
\* or being handled, in exactly one of these places, whether it was posted,
\* refused or handled.
PoolSize(pool) == IF pool = "api" THEN API_POOL ELSE INPKT_POOL
FromPool(m, pool) == Pooled(m.type) /\ PoolOf(m.type) = pool
Queued(pool) == {k \in 1 .. Len(q) : FromPool(q[k], pool)}
Carried(pool) == {t \in THREADS : FromPool(thr[t].msg, pool) /\ thr[t].pc # "posted"}
PoolsAccounted ==
  \A pool \in {"api", "inpkt"} :
    free[pool] + Cardinality(Queued(pool)) + Cardinality(Carried(pool)) = PoolSize(pool)

\* The message of a call is on its caller's stack.  It is in the ring or in the
\* tcpip thread's hands, in one place only, and then its caller is still there,
\* unsignalled; and a caller that waits unsignalled has its message in one of them.
Awaiting == {t \in CALLERS : thr[t].op = "call" /\ thr[t].pc \in {"posted", "wait_sem"} /\ ~thr[t].signalled}
CallsAccounted ==
  /\ \A t \in CALLERS : thr[t].pc = "wait_sem" /\ ~thr[t].signalled =>
       thr[TCPIP].msg = thr[t].msg \/ \E k \in 1 .. Len(q) : q[k] = thr[t].msg
  /\ \A k \in 1 .. Len(q) : q[k].type = "call" =>
       /\ q[k].from \in Awaiting /\ thr[TCPIP].msg # q[k]
       /\ \A j \in 1 .. Len(q) : q[j] = q[k] => j = k
  /\ thr[TCPIP].msg.type = "call" => thr[TCPIP].msg.from \in Awaiting

\* No message is lost, handled twice or handled after its caller has gone
\* (tcpip_callback, tcpip_try_callback, tcpip_inpkt, tcpip_send_msg_wait_sem).
MessagesAccounted == PoolsAccounted /\ CallsAccounted

-----------------------------------------------------------------------------

(***************************************************************************)
(* Timeouts of the tcpip thread (src/core/timeouts.c): the sorted list of  *)
(* sys_timeo, the cyclic timers, and the TCP timer that runs only while    *)
(* there are connections.  clock is the real time; the code sees it, and   *)
(* stores due times, modulo TIME (2^32).  due is a ghost: the real time a  *)
(* timeout is meant for.                                                   *)
(***************************************************************************)

CONSTANTS
  TIME,             \* the modulus of sys_now, even
  CYCLIC,           \* cyclic timers: name -> interval_ms
  TCP_TMR_INTERVAL,
  UserDelays,       \* timeouts the application asks for
  MaxUser,          \* bound on its pending timeouts
  MaxPcbs,          \* bound on active TCP blocks
  MaxLate,          \* how late sys_check_timeouts may come
  EndOfTime         \* bound on the clock

VARIABLES clock, timeouts, pcbs, tcpip_tcp_timer_active, running, fired

timeoutVars == <<clock, timeouts, pcbs, tcpip_tcp_timer_active, running, fired>>

sys_now == clock % TIME
\* Faulty variant: times are compared without regard to the wrap of the clock.
TimeBelow(t, u) == t < u

TIME_LESS_THAN(t, u) == ((t - u) % TIME) > TIME \div 2 - 1

\* Behind every timeout that is not later.
sys_timeout_abs(list, h, due) ==
  LET t == [h |-> h, time |-> due % TIME, due |-> due]
      later == {k \in 1 .. Len(list) : TIME_LESS_THAN(t.time, list[k].time)}
      k == CHOOSE k \in later : \A j \in later : k <= j
  IN  IF later = {} THEN Append(list, t)
      ELSE SubSeq(list, 1, k - 1) \o <<t>> \o SubSeq(list, k, Len(list))

sys_timeout(list, h, msecs) == sys_timeout_abs(list, h, clock + msecs)

\* The first timeout of the handler.
sys_untimeout(list, h) ==
  LET hits == {k \in 1 .. Len(list) : list[k].h = h}
      k == CHOOSE k \in hits : \A j \in hits : k <= j
  IN  IF hits = {} THEN list ELSE SubSeq(list, 1, k - 1) \o SubSeq(list, k + 1, Len(list))

\* The TCP timer is not among the cyclic timers that start with the stack.
sys_timeouts_init ==
  LET started[S \in SUBSET DOMAIN CYCLIC] ==
        IF S = {} THEN << >>
        ELSE LET c == CHOOSE c \in S : TRUE IN sys_timeout_abs(started[S \ {c}], c, CYCLIC[c])
  IN  started[DOMAIN CYCLIC]

TimeoutsInit ==
  /\ clock = 0
  /\ timeouts = sys_timeouts_init
  /\ pcbs = 0
  /\ tcpip_tcp_timer_active = FALSE
  /\ running = << >>
  /\ fired = << >>

\* Called by TCP_REG_ACTIVE, after the block is on the list.
tcp_timer_needed(list, active, n) ==
  IF ~active /\ n > 0 THEN [list |-> sys_timeout(list, "tcp", TCP_TMR_INTERVAL), active |-> TRUE]
  ELSE [list |-> list, active |-> active]

\* A cyclic timer runs again an interval after it was due, or from now when that
\* is already over.
lwip_cyclic_timer(list, c, time, due) ==
  LET next == (time + CYCLIC[c]) % TIME
  IN  IF TIME_LESS_THAN(next, sys_now) THEN sys_timeout_abs(list, c, clock + CYCLIC[c])
      ELSE sys_timeout_abs(list, c, due + CYCLIC[c])

\* tcp_tmr may end connections, or open some in a callback, before the timer looks.
tcpip_tcp_timer(list, n) ==
  IF n > 0 THEN [list |-> sys_timeout(list, "tcp", TCP_TMR_INTERVAL), active |-> TRUE]
  ELSE [list |-> list, active |-> FALSE]

sys_timeouts_sleeptime(list) ==
  IF list = << >> THEN -1
  ELSE IF TIME_LESS_THAN(list[1].time, sys_now) THEN 0
  ELSE (list[1].time - sys_now) % TIME

\* Time passes; the tcpip thread sleeps at most sys_timeouts_sleeptime and is then
\* at most MaxLate behind.
Tick ==
  /\ clock < EndOfTime
  /\ running = << >>
  /\ timeouts # << >> => clock - timeouts[1].due < MaxLate
  /\ clock' = clock + 1
  /\ fired' = << >>
  /\ UNCHANGED <<timeouts, pcbs, tcpip_tcp_timer_active, running>>

UserTimeout ==
  \E d \in UserDelays :
    /\ running = << >>
    /\ Cardinality({k \in 1 .. Len(timeouts) : timeouts[k].h = "user"}) < MaxUser
    /\ timeouts' = sys_timeout(timeouts, "user", d)
    /\ fired' = << >>
    /\ UNCHANGED <<clock, pcbs, tcpip_tcp_timer_active, running>>

UserUntimeout ==
  /\ running = << >>
  /\ timeouts' = sys_untimeout(timeouts, "user")
  /\ fired' = << >>
  /\ UNCHANGED <<clock, pcbs, tcpip_tcp_timer_active, running>>

\* TCP_REG_ACTIVE and TCP_RMV_ACTIVE.
OpenPcb ==
  /\ pcbs < MaxPcbs
  /\ pcbs' = pcbs + 1
  /\ LET r == tcp_timer_needed(timeouts, tcpip_tcp_timer_active, pcbs + 1)
     IN  timeouts' = r.list /\ tcpip_tcp_timer_active' = r.active
  /\ fired' = << >>
  /\ UNCHANGED <<clock, running>>

ClosePcb ==
  /\ pcbs > 0 /\ pcbs' = pcbs - 1 /\ fired' = << >>
  /\ UNCHANGED <<clock, timeouts, tcpip_tcp_timer_active, running>>

\* One round of sys_check_timeouts: the first timeout leaves the list, then its
\* handler runs.  The time is read once, before the first round.
sys_check_timeouts ==
  /\ running = << >> /\ timeouts # << >>
  /\ ~TIME_LESS_THAN(sys_now, timeouts[1].time)
  /\ running' = <<timeouts[1]>>
  /\ fired' = <<timeouts[1]>>
  /\ timeouts' = Tail(timeouts)
  /\ UNCHANGED <<clock, pcbs, tcpip_tcp_timer_active>>

RunHandler ==
  /\ running # << >>
  /\ LET t == running[1]
         r == tcpip_tcp_timer(timeouts, pcbs)
     IN  CASE t.h = "user" -> UNCHANGED <<timeouts, tcpip_tcp_timer_active>>
           [] t.h = "tcp" -> timeouts' = r.list /\ tcpip_tcp_timer_active' = r.active
           [] OTHER -> timeouts' = lwip_cyclic_timer(timeouts, t.h, t.time, t.due)
                       /\ UNCHANGED tcpip_tcp_timer_active
  /\ running' = << >> /\ fired' = << >>
  /\ UNCHANGED <<clock, pcbs>>

\* After a long sleep without timeouts (sys_restart_timeouts) every timeout keeps
\* its distance to the first, which is due now.
sys_restart_timeouts ==
  /\ running = << >> /\ timeouts # << >>
  /\ LET base == timeouts[1]
     IN  timeouts' = [k \in 1 .. Len(timeouts) |->
                        [timeouts[k] EXCEPT !.time = (@ - base.time + sys_now) % TIME,
                                            !.due = @ - base.due + clock]]
  /\ fired' = << >>
  /\ UNCHANGED <<clock, pcbs, tcpip_tcp_timer_active, running>>

TimeoutsNext == Tick \/ UserTimeout \/ UserUntimeout \/ OpenPcb \/ ClosePcb \/ sys_check_timeouts
                \/ RunHandler \/ sys_restart_timeouts

TimeoutsSpec == TimeoutsInit /\ [][TimeoutsNext]_timeoutVars
-----------------------------------------------------------------------------
\* timeouts.c: across the wrap of the 32-bit clock a timeout never runs before it is
\* due, nor after one that is due earlier, and the thread never sleeps past it.
TimeoutsInOrder ==
  /\ \A j, k \in 1 .. Len(timeouts) : j < k => timeouts[j].due <= timeouts[k].due
  /\ fired # << >> => /\ fired[1].due <= clock
                      /\ \A k \in 1 .. Len(timeouts) : fired[1].due <= timeouts[k].due
  /\ timeouts # << >> =>
       clock + sys_timeouts_sleeptime(timeouts) <= IF timeouts[1].due < clock THEN clock
                                                   ELSE timeouts[1].due

Pending(h) == Cardinality({k \in 1 .. Len(timeouts) : timeouts[k].h = h})
              + Cardinality({k \in 1 .. Len(running) : running[k].h = h})

\* tcp_timer_needed, tcpip_tcp_timer: while a connection exists the TCP timer is
\* armed or running, exactly once, and a cyclic timer is never lost or doubled.
TimersKeepRunning ==
  /\ pcbs > 0 => Pending("tcp") = 1
  /\ Pending("tcp") = IF tcpip_tcp_timer_active THEN 1 ELSE 0
  /\ \A c \in DOMAIN CYCLIC : Pending(c) = 1
==============================================================================
