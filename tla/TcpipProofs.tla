---------------------------- MODULE TcpipProofs ----------------------------
(***************************************************************************)
(* For any number of calling threads and any size of the mailbox: the      *)
(* unix port's mailbox loses no wake-up, and stack code runs in the thread *)
(* that holds the core lock.                                               *)
(***************************************************************************)
EXTENDS Tcpip, FiniteSetTheorems, SequenceTheorems, TLAPS

OPS == {"callback", "try_callback", "inpkt", "call"}
MSGS == [type : OPS \cup {NONE}, from : CALLERS \cup {NONE}]
CallerPc == {"idle", "lock", "posting", "posted", "full", "wait_not_full", "relock", "wait_sem",
             "core_lock", "core_locked", "run", "core_unlock", "core_unlocking"}
TcpipPc == {"fetch", "fetching", "wait_not_empty", "fetched", "handle", "timeouts",
            "core_lock", "core_locked", "core_unlock", "core_unlocking"}
THR == [pc : CallerPc \cup TcpipPc, op : OPS \cup {NONE}, msg : MSGS, signalled : BOOLEAN]
SEMS == [not_empty : {0, 1}, not_full : {0, 1}, mutex : {0, 1}]

\* Types of the mailbox, the locks and the threads.
TcpipTypeOK ==
  /\ locking \in BOOLEAN
  /\ q \in Seq(MSGS)
  /\ wait_send \in Int
  /\ sem \in SEMS
  /\ thr \in [THREADS -> THR]
  /\ \A t \in CALLERS : thr[t].pc \in CallerPc
  /\ thr[TCPIP].pc \in TcpipPc

\* One thread at a time is between the wait for the mailbox's mutex and its signal.
MboxExclusive ==
  /\ \A t \in THREADS : InMbox(t) => sem.mutex = 0
  /\ \A t, u \in THREADS : InMbox(t) /\ InMbox(u) => t = u

\* wait_send counts the posters between sys_mbox_post's increment and its decrement.
Waiters == {t \in CALLERS : thr[t].pc \in {"full", "wait_not_full", "relock"}}
WaitersCounted == wait_send = Cardinality(Waiters)

\* A poster that found the mailbox full has not let go of the mutex since.
FullHasMail == \A t \in CALLERS : thr[t].pc = "full" => q # << >>

\* Who is between locking and unlocking lock_tcpip_core, and whose name is recorded.
InCore(t) == thr[t].pc \in {"core_locked", "run", "handle", "timeouts", "core_unlock", "core_unlocking"}
Recorded(t) == thr[t].pc \in {"run", "handle", "timeouts", "core_unlock"}
UsesCore(t) == thr[t].pc \in {"core_lock", "core_locked", "run", "core_unlock", "core_unlocking"}
CoreExclusive ==
  /\ \A t \in THREADS : locking /\ InCore(t) => core = t
  /\ \A t \in THREADS : locking /\ Recorded(t) => holder = t
  /\ \A t \in THREADS : ~locking => ~UsesCore(t)

MboxInv == TcpipTypeOK /\ MboxExclusive /\ WaitersCounted /\ FullHasMail /\ NobodySleepsOnWork

-----------------------------------------------------------------------------
\* What the assumption says of the threads.
LEMMA Threads == /\ TCPIP \in THREADS /\ CALLERS \subseteq THREADS /\ NONE \notin THREADS
                 /\ \A t \in CALLERS : t # TCPIP
  BY Zenon, TcpipAssumption DEF THREADS, TCPIP, NONE

\* The messages a caller posts are messages.
LEMMA NewMessages ==
    /\ EMPTY \in MSGS
    /\ \A t \in CALLERS, op \in OPS : [type |-> op, from |-> t] \in MSGS
  BY Zenon DEF EMPTY, MSGS, OPS

\* Goto changes one thread's pc and nothing else of the threads.
LEMMA GotoFacts ==
    ASSUME thr \in [THREADS -> THR], NEW t \in THREADS, NEW pc \in CallerPc \cup TcpipPc, Goto(t, pc)
    PROVE  /\ thr' \in [THREADS -> THR]
           /\ thr'[t].pc = pc
           /\ \A u \in THREADS \ {t} : thr'[u] = thr[u]
           /\ \A u \in THREADS : /\ thr'[u].msg = thr[u].msg /\ thr'[u].op = thr[u].op
                                /\ thr'[u].signalled = thr[u].signalled
  BY DEF Goto, THR

\* Return leaves the thread idle and the others as they were.
LEMMA ReturnFacts ==
    ASSUME thr \in [THREADS -> THR], NEW t \in THREADS, Return(t)
    PROVE  /\ thr' \in [THREADS -> THR]
           /\ thr'[t].pc = "idle" /\ thr'[t].msg = EMPTY
           /\ \A u \in THREADS \ {t} : thr'[u] = thr[u]
  BY Zenon, NewMessages DEF Return, THR, CallerPc, OPS

\* Handling a message moves the tcpip thread on; a caller may be signalled, where it is.
LEMMA HandleFacts ==
    ASSUME thr \in [THREADS -> THR], tcpip_thread_handle_msg
    PROVE  /\ thr' \in [THREADS -> THR]
           /\ thr'[TCPIP].pc = IF locking THEN "core_unlock" ELSE "fetch"
           /\ \A u \in THREADS \ {TCPIP} : thr'[u].pc = thr[u].pc
  <1> DEFINE m == thr[TCPIP].msg
             idle == [pc |-> IF locking THEN "core_unlock" ELSE "fetch", op |-> NONE, msg |-> EMPTY, signalled |-> FALSE]
             done == [thr EXCEPT ![TCPIP] = idle]
  <1>1. idle \in THR
    BY Zenon, NewMessages DEF THR, TcpipPc, OPS
  <1>2. /\ done \in [THREADS -> THR] /\ done[TCPIP].pc = IF locking THEN "core_unlock" ELSE "fetch"
        /\ \A u \in THREADS \ {TCPIP} : done[u] = thr[u]
    BY Zenon, <1>1, Threads
  <1>3. thr' = IF Waits(m.type) THEN [done EXCEPT ![m.from].signalled = TRUE] ELSE done
    BY Zenon DEF tcpip_thread_handle_msg
  <1> HIDE DEF done
  <1>4. [done EXCEPT ![m.from].signalled = TRUE] \in [THREADS -> THR]
    BY ZenonT(40), <1>2 DEF THR
  <1>5. \A u \in THREADS : [done EXCEPT ![m.from].signalled = TRUE][u].pc = done[u].pc
    BY <1>2 DEF THR
  <1> QED BY Zenon, <1>2, <1>3, <1>4, <1>5, Threads

\* The semaphores count to one.
LEMMA SemFacts ==
    ASSUME sem \in SEMS
    PROVE  /\ \A s \in {"not_empty", "not_full", "mutex"} : sys_sem_signal(s, sem) \in SEMS
           /\ sys_sem_signal("mutex", sem).mutex = 1
           /\ sys_sem_signal("mutex", sem).not_empty = sem.not_empty
           /\ sys_sem_signal("mutex", sem).not_full = sem.not_full
           /\ sys_sem_signal("not_empty", sem).not_empty = 1
           /\ sys_sem_signal("not_empty", sem).mutex = sem.mutex
           /\ sys_sem_signal("not_empty", sem).not_full = sem.not_full
           /\ sys_sem_signal("not_full", sem).not_full = 1
           /\ sys_sem_signal("not_full", sem).mutex = sem.mutex
           /\ sys_sem_signal("not_full", sem).not_empty = sem.not_empty
  BY Zenon DEF SEMS, sys_sem_signal

\* Every step keeps the types.
LEMMA TypeStep == ASSUME TcpipTypeOK, TcpipNext PROVE TcpipTypeOK'
  <1> USE Threads, NewMessages DEF TcpipTypeOK
  <1>1. ASSUME NEW t \in CALLERS, NEW op \in {"callback", "try_callback", "inpkt"}, Take(t, op)
        PROVE  TcpipTypeOK'
    BY Zenon, <1>1 DEF Take, THR, OPS, CallerPc, TcpipPc
  <1>2. ASSUME NEW t \in CALLERS, Call(t) PROVE TcpipTypeOK'
    BY Zenon, <1>2 DEF Call, THR, OPS, CallerPc, TcpipPc
  <1>3. ASSUME NEW t \in THREADS, LockMbox(t) PROVE TcpipTypeOK'
    <2>1. sem' \in SEMS
      BY Zenon, <1>3 DEF LockMbox, sys_arch_sem_wait, SEMS
    <2> QED BY <1>3, <2>1, GotoFacts DEF LockMbox, CallerPc, TcpipPc
  <1>4. ASSUME NEW t \in THREADS, UnlockMbox(t) PROVE TcpipTypeOK'
    BY <1>4, GotoFacts, ReturnFacts, SemFacts DEF UnlockMbox, CallerPc, TcpipPc
  <1>5. ASSUME NEW t \in THREADS, sys_mbox_post(t) \/ sys_mbox_trypost(t) PROVE TcpipTypeOK'
    <2>1. t \in CALLERS /\ thr[t].msg \in MSGS
      BY Zenon, <1>5 DEF sys_mbox_post, sys_mbox_trypost, THREADS, TcpipPc, THR
    <2>2. StoreIn(thr[t].msg) => q' \in Seq(MSGS) /\ sem' \in SEMS
      BY <2>1, SemFacts DEF StoreIn
    <2> QED BY <1>5, <2>1, <2>2, GotoFacts, ReturnFacts, SemFacts DEF sys_mbox_post, sys_mbox_trypost, CallerPc
  <1>6. ASSUME NEW t \in THREADS, AwaitRoom(t) \/ AwaitAnswer(t) \/ RunFunction(t) PROVE TcpipTypeOK'
    <2>1. sys_arch_sem_wait("not_full", sem) => sem' \in SEMS
      BY Zenon DEF sys_arch_sem_wait, SEMS
    <2>2. CASE AwaitRoom(t)
      BY <2>1, <2>2, GotoFacts DEF AwaitRoom, CallerPc, TcpipPc
    <2>3. CASE AwaitAnswer(t)
      BY <2>3, ReturnFacts DEF AwaitAnswer, CallerPc, TcpipPc
    <2>4. CASE RunFunction(t)
      BY <2>4, GotoFacts DEF RunFunction, CallerPc, TcpipPc
    <2> QED BY Zenon, <1>6, <2>2, <2>3, <2>4
  <1>7. ASSUME NEW t \in THREADS, sys_lock_tcpip_core(t) \/ sys_unlock_tcpip_core(t) PROVE TcpipTypeOK'
    <2>1. CASE sys_lock_tcpip_core(t)
      BY <2>1, GotoFacts DEF sys_lock_tcpip_core, CallerPc, TcpipPc, THREADS
    <2>2. CASE sys_unlock_tcpip_core(t)
      BY <2>2, GotoFacts, ReturnFacts DEF sys_unlock_tcpip_core, CallerPc, TcpipPc, THREADS
    <2> QED BY Zenon, <1>7, <2>1, <2>2
  <1>8. CASE sys_arch_mbox_fetch
    <2>1. CASE q = << >>
      BY <1>8, <2>1, GotoFacts, SemFacts DEF sys_arch_mbox_fetch, TcpipPc
    <2>2. CASE q # << >>
      <3>1. Head(q) \in MSGS /\ q' \in Seq(MSGS) /\ sem' \in SEMS
        <4>1. Head(q) \in MSGS /\ Tail(q) \in Seq(MSGS)
          BY Zenon, <2>2, HeadTailProperties
        <4>2. q' = Tail(q) /\ sem' = IF wait_send > 0 THEN sys_sem_signal("not_full", sem) ELSE sem
          BY Zenon, <1>8, <2>2 DEF sys_arch_mbox_fetch
        <4> QED BY Zenon, <4>1, <4>2, SemFacts
      <3>2. thr' = [thr EXCEPT ![TCPIP].pc = "fetched", ![TCPIP].msg = Head(q)]
        BY Zenon, <1>8, <2>2 DEF sys_arch_mbox_fetch
      <3>3. thr' \in [THREADS -> THR] /\ thr'[TCPIP].pc = "fetched" /\ \A u \in THREADS \ {TCPIP} : thr'[u] = thr[u]
        BY ZenonT(40), <3>1, <3>2 DEF THR, TcpipPc
      <3> QED BY Zenon, <1>8, <3>1, <3>3 DEF sys_arch_mbox_fetch, TcpipPc
    <2> QED BY Zenon, <2>1, <2>2
  <1>9. CASE cond_wait \/ tcpip_mbox_fetch
    <2>1. sys_arch_sem_wait("not_empty", sem) => sem' \in SEMS
      BY Zenon DEF sys_arch_sem_wait, SEMS
    <2> QED BY <1>9, <2>1, GotoFacts DEF cond_wait, tcpip_mbox_fetch, TcpipPc
  <1>10. CASE tcpip_thread_handle_msg
    BY Zenon, <1>10, HandleFacts DEF tcpip_thread_handle_msg, TcpipPc
  <1> QED
    BY <1>1, <1>2, <1>3, <1>4, <1>5, <1>6, <1>7, <1>8, <1>9, <1>10
       DEF TcpipNext, ThreadStep, tcpip_callback, tcpip_timeout, tcpip_untimeout, tcpip_try_callback,
           tcpip_inpkt, tcpip_api_call, tcpip_send_msg_wait_sem, tcpip_callback_wait

-----------------------------------------------------------------------------
\* The program points at which a thread is at the mailbox.
AtMbox == {"posting", "posted", "full", "wait_not_full", "relock", "fetching", "fetched", "wait_not_empty"}

\* Steps away from the mailbox.
Elsewhere ==
  /\ UNCHANGED <<q, wait_send, sem>>
  /\ \A u \in THREADS : \/ thr'[u].pc = thr[u].pc
                        \/ thr[u].pc \notin AtMbox /\ thr'[u].pc \notin AtMbox

\* Steps outside the mailbox functions of sys_arch.c keep its invariant.
LEMMA ElsewhereStep == ASSUME MboxInv, Elsewhere, TcpipTypeOK' PROVE MboxInv'
  <1> USE Threads DEF MboxInv, Elsewhere, AtMbox
  <1>1. \A u \in THREADS, x \in AtMbox : thr'[u].pc = x <=> thr[u].pc = x
    BY Zenon
  <1>2. MboxExclusive' /\ FullHasMail'
    BY <1>1 DEF MboxExclusive, FullHasMail, InMbox
  <1>3. WaitersCounted'
    BY Zenon, <1>1 DEF WaitersCounted, Waiters
  <1>4. NobodySleepsOnWork'
    BY Zenon, <1>1 DEF NobodySleepsOnWork
  <1> QED BY Zenon, <1>2, <1>3, <1>4

\* The posters that wait are finitely many; one more or one less counts as one.
LEMMA WaitersFacts ==
    ASSUME MboxInv, NEW t \in CALLERS,
           \A u \in CALLERS \ {t} : thr'[u].pc = thr[u].pc
    PROVE  /\ Cardinality(Waiters) \in Nat
           /\ (t \in Waiters <=> t \in Waiters') => Waiters' = Waiters
           /\ t \notin Waiters /\ t \in Waiters' => Cardinality(Waiters') = Cardinality(Waiters) + 1
           /\ t \in Waiters /\ t \notin Waiters' => Cardinality(Waiters') = Cardinality(Waiters) - 1
  <1>1. IsFiniteSet(Waiters)
    BY Zenon, TcpipAssumption, FS_Subset DEF Waiters
  <1>2. Cardinality(Waiters) \in Nat
    BY Zenon, <1>1, FS_CardinalityType
  <1>3. Waiters \subseteq CALLERS /\ Waiters' \subseteq CALLERS /\ \A u \in CALLERS \ {t} : u \in Waiters <=> u \in Waiters'
    BY Zenon DEF Waiters
  <1>4. (t \in Waiters <=> t \in Waiters') => Waiters' = Waiters
    BY <1>3
  <1>5. ASSUME t \notin Waiters, t \in Waiters' PROVE Cardinality(Waiters') = Cardinality(Waiters) + 1
    <2>1. Waiters' = Waiters \cup {t}
      BY Zenon, <1>3, <1>5
    <2> QED BY Zenon, <2>1, <1>1, <1>5, FS_AddElement
  <1>6. ASSUME t \in Waiters, t \notin Waiters' PROVE Cardinality(Waiters') = Cardinality(Waiters) - 1
    <2>1. Waiters' = Waiters \ {t}
      BY Zenon, <1>3, <1>6
    <2> QED BY Zenon, <2>1, <1>1, <1>6, FS_RemoveElement
  <1> QED BY Zenon, <1>2, <1>4, <1>5, <1>6

\* Taking the mutex.
LEMMA LockMboxStep == ASSUME MboxInv, NEW t \in THREADS, LockMbox(t), TcpipTypeOK' PROVE MboxInv'
  <1> USE Threads DEF MboxInv
  <1> DEFINE pc == IF thr[t].pc = "fetch" THEN "fetching" ELSE "posting"
  <1>1. /\ thr[t].pc \in {"lock", "relock", "fetch"}
        /\ thr'[t].pc = pc
        /\ \A u \in THREADS \ {t} : thr'[u] = thr[u]
        /\ thr[t].pc = "fetch" <=> t = TCPIP
        /\ t # TCPIP => t \in CALLERS
    BY GotoFacts DEF LockMbox, TcpipTypeOK, CallerPc, TcpipPc, THREADS
  <1>2. /\ sem.mutex = 1 /\ sem'.mutex = 0 /\ sem'.not_empty = sem.not_empty /\ sem'.not_full = sem.not_full
        /\ q' = q /\ wait_send' = IF thr[t].pc = "relock" THEN wait_send - 1 ELSE wait_send
    BY Zenon DEF LockMbox, sys_arch_sem_wait, TcpipTypeOK, SEMS
  <1>3. MboxExclusive'
    BY <1>1, <1>2 DEF MboxExclusive, InMbox
  <1>4. WaitersCounted'
    <2>1. CASE t = TCPIP
      BY Zenon, <1>1, <1>2, <2>1 DEF WaitersCounted, Waiters
    <2>2. CASE t # TCPIP
      <3>1. t \in Waiters <=> thr[t].pc = "relock"
        BY Zenon, <1>1, <2>2 DEF Waiters
      <3>2. t \notin Waiters'
        BY Zenon, <1>1, <2>2 DEF Waiters
      <3> QED BY Zenon, <1>1, <1>2, <2>2, <3>1, <3>2, WaitersFacts DEF WaitersCounted
    <2> QED BY Zenon, <2>1, <2>2
  <1>5. FullHasMail'
    BY Zenon, <1>1, <1>2 DEF FullHasMail
  <1>6. NobodySleepsOnWork'
    BY <1>1, <1>2 DEF NobodySleepsOnWork
  <1> QED BY Zenon, <1>3, <1>4, <1>5, <1>6

\* Releasing the mutex: a poster that found the mailbox full begins to wait for room.
LEMMA UnlockMboxStep == ASSUME MboxInv, NEW t \in THREADS, UnlockMbox(t), TcpipTypeOK' PROVE MboxInv'
  <1> USE Threads DEF MboxInv
  <1>1. /\ thr[t].pc \in {"posted", "fetched", "full"}
        /\ thr[t].pc = "full" => thr'[t].pc = "wait_not_full"
        /\ thr[t].pc # "full" => thr'[t].pc \notin AtMbox
        /\ \A u \in THREADS \ {t} : thr'[u] = thr[u]
        /\ thr[t].pc = "fetched" <=> t = TCPIP
        /\ t # TCPIP => t \in CALLERS
    BY GotoFacts, ReturnFacts DEF UnlockMbox, TcpipTypeOK, CallerPc, TcpipPc, THREADS, AtMbox
  <1>2. /\ sem.mutex = 0 /\ sem'.mutex = 1 /\ sem'.not_empty = sem.not_empty /\ sem'.not_full = sem.not_full
        /\ q' = q /\ wait_send' = wait_send
    BY Zenon, <1>1, SemFacts DEF UnlockMbox, TcpipTypeOK, MboxExclusive, InMbox
  <1>3. MboxExclusive'
    BY <1>1, <1>2 DEF MboxExclusive, InMbox, AtMbox
  <1>4. WaitersCounted'
    <2>1. CASE t = TCPIP
      BY <1>1, <1>2, <2>1 DEF WaitersCounted, Waiters
    <2>2. CASE t # TCPIP
      <3>1. t \in Waiters <=> t \in Waiters'
        BY Zenon, <1>1, <2>2 DEF Waiters, AtMbox
      <3> QED BY Zenon, <1>1, <1>2, <2>2, <3>1, WaitersFacts DEF WaitersCounted
    <2> QED BY Zenon, <2>1, <2>2
  <1>5. FullHasMail'
    BY Zenon, <1>1, <1>2 DEF FullHasMail, AtMbox
  <1>6. NobodySleepsOnWork'
    BY <1>1, <1>2 DEF NobodySleepsOnWork, FullHasMail, AtMbox
  <1> QED BY Zenon, <1>3, <1>4, <1>5, <1>6

\* A message is stored: a tcpip thread that sleeps is signalled.
LEMMA StoreStep ==
    ASSUME MboxInv, NEW t \in CALLERS, NEW msg, thr[t].pc = "posting", StoreIn(msg), Goto(t, "posted"),
           wait_send' = wait_send, TcpipTypeOK'
    PROVE  MboxInv'
  <1> USE Threads DEF MboxInv
  <1>1. thr'[t].pc = "posted" /\ \A u \in THREADS \ {t} : thr'[u] = thr[u]
    BY Zenon, GotoFacts DEF TcpipTypeOK, CallerPc
  <1>2. /\ sem'.mutex = sem.mutex /\ sem'.not_full = sem.not_full
        /\ sem'.not_empty = IF q = << >> THEN 1 ELSE sem.not_empty
    BY Zenon, SemFacts DEF StoreIn, TcpipTypeOK
  <1>3. q' # << >>
    <2>1. q' = Append(q, msg) /\ q \in Seq(MSGS)
      BY Zenon DEF StoreIn, TcpipTypeOK
    <2> QED BY <2>1
  <1>4. MboxExclusive'
    BY <1>1, <1>2 DEF MboxExclusive, InMbox
  <1>5. WaitersCounted'
    <2>1. t \notin Waiters /\ t \notin Waiters'
      BY Zenon, <1>1 DEF Waiters
    <2> QED BY Zenon, <1>1, <2>1, WaitersFacts DEF WaitersCounted
  <1>6. FullHasMail'
    BY Zenon, <1>3 DEF FullHasMail
  <1>7. NobodySleepsOnWork'
    BY <1>1, <1>2, <1>3 DEF NobodySleepsOnWork
  <1> QED BY Zenon, <1>4, <1>5, <1>6, <1>7

\* A full mailbox has a message in it.
LEMMA FullIsNotEmpty == ASSUME TcpipTypeOK, Full PROVE q # << >>
  BY TcpipAssumption DEF Full, TcpipTypeOK

\* Posting: the message is stored, or the poster is counted among the waiting.
LEMMA PostStep == ASSUME MboxInv, NEW t \in THREADS, sys_mbox_post(t), TcpipTypeOK' PROVE MboxInv'
  <1> USE Threads DEF MboxInv
  <1>0. t \in CALLERS /\ thr[t].pc = "posting"
    BY Zenon DEF sys_mbox_post, TcpipTypeOK, TcpipPc, THREADS
  <1>1. CASE ~Full
    BY Zenon, <1>0, <1>1, StoreStep DEF sys_mbox_post
  <1>2. CASE Full
    <2>1. thr'[t].pc = "full" /\ \A u \in THREADS \ {t} : thr'[u] = thr[u]
      BY <1>0, <1>2, GotoFacts DEF sys_mbox_post, TcpipTypeOK, CallerPc
    <2>2. q' = q /\ sem' = sem /\ wait_send' = wait_send + 1 /\ q # << >>
      BY Zenon, <1>2, FullIsNotEmpty DEF sys_mbox_post
    <2>3. MboxExclusive' /\ FullHasMail'
      BY <1>0, <2>1, <2>2 DEF MboxExclusive, FullHasMail, InMbox
    <2>4. WaitersCounted'
      <3>1. t \notin Waiters /\ t \in Waiters'
        BY Zenon, <1>0, <2>1 DEF Waiters
      <3> QED BY Zenon, <1>0, <2>1, <2>2, <3>1, WaitersFacts DEF WaitersCounted
    <2>5. NobodySleepsOnWork'
      BY <1>0, <2>1, <2>2 DEF NobodySleepsOnWork
    <2> QED BY Zenon, <2>3, <2>4, <2>5
  <1> QED BY Zenon, <1>1, <1>2

\* Trying to post: the message is stored, or refused by a mailbox with mail in it.
LEMMA TryPostStep == ASSUME MboxInv, NEW t \in THREADS, sys_mbox_trypost(t), TcpipTypeOK' PROVE MboxInv'
  <1> USE Threads DEF MboxInv
  <1>0. t \in CALLERS /\ thr[t].pc = "posting"
    BY Zenon DEF sys_mbox_trypost, TcpipTypeOK, TcpipPc, THREADS
  <1>1. CASE ~Full
    BY <1>0, <1>1, StoreStep DEF sys_mbox_trypost
  <1>2. CASE Full
    <2>1. thr'[t].pc = "idle" /\ \A u \in THREADS \ {t} : thr'[u] = thr[u]
      BY Zenon, <1>0, <1>2, ReturnFacts DEF sys_mbox_trypost, TcpipTypeOK
    <2>2. /\ q' = q /\ wait_send' = wait_send /\ q # << >>
          /\ sem'.mutex = 1 /\ sem'.not_empty = sem.not_empty /\ sem'.not_full = sem.not_full
      BY Zenon, <1>2, FullIsNotEmpty, SemFacts DEF sys_mbox_trypost, TcpipTypeOK
    <2>3. MboxExclusive' /\ FullHasMail'
      BY <1>0, <2>1, <2>2 DEF MboxExclusive, FullHasMail, InMbox
    <2>4. WaitersCounted'
      <3>1. t \notin Waiters /\ t \notin Waiters'
        BY Zenon, <1>0, <2>1 DEF Waiters
      <3> QED BY Zenon, <1>0, <2>1, <2>2, <3>1, WaitersFacts DEF WaitersCounted
    <2>5. NobodySleepsOnWork'
      BY Zenon, <1>0, <2>1, <2>2 DEF NobodySleepsOnWork
    <2> QED BY Zenon, <2>3, <2>4, <2>5
  <1> QED BY Zenon, <1>1, <1>2

\* The signal for room wakes one poster, which is on its way to post.
LEMMA AwaitRoomStep == ASSUME MboxInv, NEW t \in THREADS, AwaitRoom(t), TcpipTypeOK' PROVE MboxInv'
  <1> USE Threads DEF MboxInv
  <1>1. /\ t \in CALLERS /\ thr[t].pc = "wait_not_full" /\ thr'[t].pc = "relock"
        /\ \A u \in THREADS \ {t} : thr'[u] = thr[u]
    BY Zenon, GotoFacts DEF AwaitRoom, TcpipTypeOK, CallerPc, TcpipPc, THREADS
  <1>2. q' = q /\ wait_send' = wait_send /\ sem'.mutex = sem.mutex /\ sem'.not_empty = sem.not_empty
    BY Zenon DEF AwaitRoom, sys_arch_sem_wait, TcpipTypeOK, SEMS
  <1>3. MboxExclusive' /\ FullHasMail' /\ NobodySleepsOnWork'
    BY <1>1, <1>2 DEF MboxExclusive, FullHasMail, InMbox, NobodySleepsOnWork
  <1>4. WaitersCounted'
    <2>1. t \in Waiters /\ t \in Waiters'
      BY Zenon, <1>1 DEF Waiters
    <2> QED BY Zenon, <1>1, <1>2, <2>1, WaitersFacts DEF WaitersCounted
  <1> QED BY Zenon, <1>3, <1>4

\* Fetching: an empty mailbox is awaited; a message that is taken makes room, which is
\* signalled to the posters that wait_send counts.
LEMMA FetchStep == ASSUME MboxInv, sys_arch_mbox_fetch, TcpipTypeOK' PROVE MboxInv'
  <1> USE Threads DEF MboxInv
  <1>0. /\ thr[TCPIP].pc = "fetching" /\ wait_send' = wait_send
        /\ thr'[TCPIP].pc = IF q = << >> THEN "wait_not_empty" ELSE "fetched"
        /\ \A u \in THREADS \ {TCPIP} : thr'[u] = thr[u]
    BY DEF sys_arch_mbox_fetch, Goto, TcpipTypeOK, THR
  <1>1. WaitersCounted'
    BY Zenon, <1>0 DEF WaitersCounted, Waiters
  <1>2. FullHasMail'
    BY Zenon, <1>0 DEF FullHasMail, MboxExclusive, InMbox
  <1>3. CASE q = << >>
    <2>1. q' = q /\ sem'.mutex = 1 /\ sem'.not_empty = sem.not_empty /\ sem'.not_full = sem.not_full
      BY Zenon, <1>3, SemFacts DEF sys_arch_mbox_fetch, TcpipTypeOK
    <2>2. MboxExclusive' /\ NobodySleepsOnWork'
      BY <1>0, <1>3, <2>1 DEF MboxExclusive, InMbox, NobodySleepsOnWork
    <2> QED BY Zenon, <1>1, <1>2, <2>2
  <1>4. CASE q # << >>
    <2>1. /\ sem'.mutex = sem.mutex /\ sem'.not_empty = sem.not_empty
          /\ sem'.not_full = IF wait_send > 0 THEN 1 ELSE sem.not_full
      BY Zenon, <1>4, SemFacts DEF sys_arch_mbox_fetch, TcpipTypeOK
    <2>2. MboxExclusive'
      BY <1>0, <1>4, <2>1 DEF MboxExclusive, InMbox
    <2>3. ASSUME NEW t \in CALLERS, thr'[t].pc = "wait_not_full" PROVE sem'.not_full = 1
      <3>1. t \in Waiters /\ IsFiniteSet(Waiters)
        BY Zenon, <1>0, <2>3, TcpipAssumption, FS_Subset DEF Waiters
      <3>2. Cardinality(Waiters) \in Nat /\ Cardinality(Waiters) # 0
        BY Zenon, <3>1, FS_CardinalityType, FS_EmptySet
      <3> QED BY <2>1, <3>2 DEF WaitersCounted
    <2>4. NobodySleepsOnWork'
      BY <1>0, <1>4, <2>3 DEF NobodySleepsOnWork
    <2> QED BY Zenon, <1>1, <1>2, <2>2, <2>4
  <1> QED BY Zenon, <1>3, <1>4

\* The tcpip thread wakes up, signalled or at a timeout.
LEMMA CondWaitStep == ASSUME MboxInv, cond_wait, TcpipTypeOK' PROVE MboxInv'
  <1> USE Threads DEF MboxInv
  <1>0. /\ thr[TCPIP].pc = "wait_not_empty" /\ thr'[TCPIP].pc \in {"fetch", "core_lock", "timeouts"}
        /\ \A u \in THREADS \ {TCPIP} : thr'[u] = thr[u]
    BY Zenon, GotoFacts DEF cond_wait, TcpipTypeOK, TcpipPc
  <1>1. q' = q /\ wait_send' = wait_send /\ sem'.mutex = sem.mutex /\ sem'.not_full = sem.not_full
    BY Zenon DEF cond_wait, sys_arch_sem_wait, TcpipTypeOK, SEMS
  <1>2. MboxExclusive' /\ FullHasMail' /\ NobodySleepsOnWork'
    BY <1>0, <1>1 DEF MboxExclusive, FullHasMail, InMbox, NobodySleepsOnWork
  <1>3. WaitersCounted'
    BY Zenon, <1>0, <1>1 DEF WaitersCounted, Waiters
  <1> QED BY Zenon, <1>2, <1>3

\* Every step keeps the mailbox's invariant.
LEMMA MboxStep == ASSUME MboxInv, TcpipNext PROVE MboxInv'
  <1>0. TcpipTypeOK /\ TcpipTypeOK'
    BY Zenon, TypeStep DEF MboxInv
  <1> USE Threads
  <1>1. ASSUME NEW t \in CALLERS, NEW op \in {"callback", "try_callback", "inpkt"}, Take(t, op) PROVE MboxInv'
    <2>1. Elsewhere
      BY Zenon, <1>0, <1>1 DEF Take, Elsewhere, AtMbox, TcpipTypeOK
    <2> QED BY Zenon, <1>0, <2>1, ElsewhereStep
  <1>2. ASSUME NEW t \in CALLERS, Call(t) PROVE MboxInv'
    <2>1. Elsewhere
      BY Zenon, <1>0, <1>2 DEF Call, Elsewhere, AtMbox, TcpipTypeOK
    <2> QED BY Zenon, <1>0, <2>1, ElsewhereStep
  <1>3. ASSUME NEW t \in THREADS, AwaitAnswer(t) \/ RunFunction(t) PROVE MboxInv'
    <2>1. Elsewhere
      BY <1>0, <1>3, GotoFacts, ReturnFacts DEF AwaitAnswer, RunFunction, Elsewhere, AtMbox, TcpipTypeOK, CallerPc
    <2> QED BY Zenon, <1>0, <2>1, ElsewhereStep
  <1>4. ASSUME NEW t \in THREADS, sys_lock_tcpip_core(t) \/ sys_unlock_tcpip_core(t) PROVE MboxInv'
    <2>1. Elsewhere
      BY <1>0, <1>4, GotoFacts, ReturnFacts
         DEF sys_lock_tcpip_core, sys_unlock_tcpip_core, Elsewhere, AtMbox, TcpipTypeOK, CallerPc, TcpipPc
    <2> QED BY Zenon, <1>0, <2>1, ElsewhereStep
  <1>5. CASE tcpip_mbox_fetch
    <2>1. Elsewhere
      BY <1>0, <1>5, GotoFacts DEF tcpip_mbox_fetch, Elsewhere, AtMbox, TcpipTypeOK, TcpipPc
    <2> QED BY Zenon, <1>0, <2>1, ElsewhereStep
  <1>6. CASE tcpip_thread_handle_msg
    <2>0. thr[TCPIP].pc = "handle" /\ UNCHANGED <<q, wait_send, sem>>
      BY Zenon, <1>6 DEF tcpip_thread_handle_msg
    <2>1. Elsewhere
      BY <1>0, <1>6, <2>0, HandleFacts DEF Elsewhere, AtMbox, TcpipTypeOK
    <2> QED BY Zenon, <1>0, <2>1, ElsewhereStep
  <1> QED
    BY Zenon, <1>0, <1>1, <1>2, <1>3, <1>4, <1>5, <1>6, LockMboxStep, UnlockMboxStep, PostStep, TryPostStep,
       AwaitRoomStep, FetchStep, CondWaitStep
       DEF TcpipNext, ThreadStep, tcpip_callback, tcpip_timeout, tcpip_untimeout, tcpip_try_callback,
           tcpip_inpkt, tcpip_api_call, tcpip_send_msg_wait_sem, tcpip_callback_wait

\* The stack starts with an empty mailbox and nobody at it.
LEMMA MboxInit == tcpip_init => MboxInv
  <1> SUFFICES ASSUME tcpip_init PROVE MboxInv
    BY Zenon
  <1> USE Threads, TcpipAssumption DEF tcpip_init
  <1>1. [pc |-> "fetch", op |-> NONE, msg |-> EMPTY, signalled |-> FALSE] \in THR
        /\ [pc |-> "idle", op |-> NONE, msg |-> EMPTY, signalled |-> FALSE] \in THR
    BY Zenon, NewMessages DEF THR, CallerPc, TcpipPc, OPS
  <1>2. sem \in SEMS /\ sem.mutex = 1
    BY Zenon DEF SEMS
  <1>3. /\ thr \in [THREADS -> THR] /\ thr[TCPIP].pc = "fetch"
        /\ \A t \in CALLERS : thr[t].pc = "idle"
    BY Zenon, <1>1
  <1>4. TcpipTypeOK
    BY <1>2, <1>3 DEF TcpipTypeOK, CallerPc, TcpipPc
  <1>5. MboxExclusive /\ FullHasMail /\ NobodySleepsOnWork
    BY Zenon, <1>3 DEF MboxExclusive, FullHasMail, NobodySleepsOnWork, InMbox, THREADS
  <1>6. WaitersCounted
    BY Zenon, <1>3, FS_EmptySet DEF WaitersCounted, Waiters
  <1> QED BY Zenon, <1>4, <1>5, <1>6 DEF MboxInv

\* No wake-up is lost (NobodySleepsOnWork): sys_mbox_post signals not_empty only when the
\* mailbox was empty, sys_arch_mbox_fetch signals not_full only while wait_send is not 0, and
\* the semaphores count to one, yet neither the tcpip thread nor a poster sleeps while
\* nobody is left to wake it; for any number of threads and any size of the mailbox.
THEOREM NoWakeupIsLost == TcpipSpec => []NobodySleepsOnWork
  <1>1. MboxInv /\ [TcpipNext]_tcpipVars => MboxInv'
    <2>1. ASSUME MboxInv, UNCHANGED tcpipVars PROVE MboxInv'
      BY Zenon, <2>1 DEF tcpipVars, MboxInv, TcpipTypeOK, MboxExclusive, InMbox, WaitersCounted, Waiters,
                  FullHasMail, NobodySleepsOnWork
    <2> QED BY Zenon, <2>1, MboxStep
  <1>2. MboxInv => NobodySleepsOnWork
    BY Zenon DEF MboxInv
  <1> QED BY <1>1, <1>2, MboxInit, PTL DEF TcpipSpec

-----------------------------------------------------------------------------
\* Steps that leave lock_tcpip_core alone: no thread arrives at a program point under it.
AwayFromCore ==
  /\ UNCHANGED <<locking, core, holder>>
  /\ \A u \in THREADS : \/ thr'[u].pc = thr[u].pc
                        \/ /\ thr'[u].pc \notin {"core_locked", "run", "core_unlocking"}
                           /\ thr'[u].pc = "core_lock" => locking
                           /\ thr'[u].pc = "core_unlock" => locking /\ Recorded(u)
                           /\ thr'[u].pc \in {"handle", "timeouts"} => ~locking

\* Steps that leave the core lock alone keep it exclusive.
LEMMA AwayStep == ASSUME CoreExclusive, AwayFromCore PROVE CoreExclusive'
  BY DEF CoreExclusive, AwayFromCore, InCore, Recorded, UsesCore

\* Every step keeps the core lock's invariant.
LEMMA CoreStep == ASSUME TcpipTypeOK, CoreExclusive, TcpipNext PROVE CoreExclusive'
  <1> USE Threads DEF TcpipTypeOK
  <1>1. ASSUME NEW t \in CALLERS, NEW op \in {"callback", "try_callback", "inpkt"}, Take(t, op) PROVE CoreExclusive'
    <2>1. AwayFromCore
      BY Zenon, <1>1 DEF Take, AwayFromCore
    <2> QED BY Zenon, <2>1, AwayStep
  <1>2. ASSUME NEW t \in CALLERS, Call(t) PROVE CoreExclusive'
    <2>1. AwayFromCore
      BY Zenon, <1>2 DEF Call, AwayFromCore
    <2> QED BY Zenon, <2>1, AwayStep
  <1>3. ASSUME NEW t \in THREADS, LockMbox(t) \/ UnlockMbox(t) PROVE CoreExclusive'
    <2>1. AwayFromCore
      BY <1>3, GotoFacts, ReturnFacts DEF LockMbox, UnlockMbox, AwayFromCore, CallerPc, TcpipPc
    <2> QED BY Zenon, <2>1, AwayStep
  <1>4. ASSUME NEW t \in THREADS, sys_mbox_post(t) \/ sys_mbox_trypost(t) PROVE CoreExclusive'
    <2>1. AwayFromCore
      BY <1>4, GotoFacts, ReturnFacts DEF sys_mbox_post, sys_mbox_trypost, AwayFromCore, CallerPc
    <2> QED BY Zenon, <2>1, AwayStep
  <1>5. ASSUME NEW t \in THREADS, AwaitRoom(t) \/ AwaitAnswer(t) PROVE CoreExclusive'
    <2>1. AwayFromCore
      BY <1>5, GotoFacts, ReturnFacts DEF AwaitRoom, AwaitAnswer, AwayFromCore, CallerPc
    <2> QED BY Zenon, <2>1, AwayStep
  <1>6. CASE sys_arch_mbox_fetch
    <2>1. /\ thr'[TCPIP].pc \in {"fetched", "wait_not_empty"} /\ UNCHANGED <<locking, core, holder>>
          /\ \A u \in THREADS \ {TCPIP} : thr'[u] = thr[u]
      BY <1>6 DEF sys_arch_mbox_fetch, Goto, THR
    <2>2. AwayFromCore
      BY Zenon, <2>1 DEF AwayFromCore
    <2> QED BY Zenon, <2>2, AwayStep
  <1>7. CASE cond_wait \/ tcpip_mbox_fetch
    <2>1. AwayFromCore
      BY <1>7, GotoFacts DEF cond_wait, tcpip_mbox_fetch, AwayFromCore, TcpipPc, Recorded
    <2> QED BY Zenon, <2>1, AwayStep
  <1>8. CASE tcpip_thread_handle_msg
    <2>0. thr[TCPIP].pc = "handle" /\ UNCHANGED <<locking, core, holder>>
      BY Zenon, <1>8 DEF tcpip_thread_handle_msg
    <2>1. AwayFromCore
      BY <1>8, <2>0, HandleFacts DEF AwayFromCore, Recorded
    <2> QED BY Zenon, <2>1, AwayStep
  <1>9. ASSUME NEW t \in THREADS, RunFunction(t) PROVE CoreExclusive'
    <2>1. AwayFromCore
      BY <1>9, GotoFacts DEF RunFunction, AwayFromCore, CallerPc, Recorded, CoreExclusive, UsesCore
    <2> QED BY Zenon, <2>1, AwayStep
  <1>10. ASSUME NEW t \in THREADS, sys_lock_tcpip_core(t) PROVE CoreExclusive'
    <2>1. \A u \in THREADS \ {t} : thr'[u] = thr[u]
      BY Zenon, <1>10, GotoFacts DEF sys_lock_tcpip_core, CallerPc, TcpipPc
    <2>2. CASE thr[t].pc = "core_lock" /\ core = NONE /\ core' = t /\ Goto(t, "core_locked") /\ UNCHANGED <<locking, holder>>
      <3>1. thr'[t].pc = "core_locked"
        BY Zenon, <2>2, GotoFacts DEF CallerPc
      <3> QED BY Zenon, <2>1, <2>2, <3>1 DEF CoreExclusive, InCore, Recorded, UsesCore
    <2>3. CASE thr[t].pc = "core_locked" /\ holder' = t /\ UNCHANGED <<locking, core>>
      <3>1. thr'[t].pc \in {"run", "timeouts", "handle"}
        BY Zenon, <1>10, <2>3, GotoFacts DEF sys_lock_tcpip_core, CallerPc, TcpipPc
      <3> QED BY <2>1, <2>3, <3>1 DEF CoreExclusive, InCore, Recorded, UsesCore
    <2> QED BY Zenon, <1>10, <2>2, <2>3 DEF sys_lock_tcpip_core
  <1>11. ASSUME NEW t \in THREADS, sys_unlock_tcpip_core(t) PROVE CoreExclusive'
    <2>1. \A u \in THREADS \ {t} : thr'[u] = thr[u]
      BY Zenon, <1>11, GotoFacts, ReturnFacts DEF sys_unlock_tcpip_core, CallerPc, TcpipPc
    <2>2. CASE thr[t].pc = "core_unlock" /\ holder' = NONE /\ Goto(t, "core_unlocking") /\ UNCHANGED <<locking, core>>
      <3>1. thr'[t].pc = "core_unlocking"
        BY Zenon, <2>2, GotoFacts DEF CallerPc
      <3> QED BY Zenon, <2>1, <2>2, <3>1 DEF CoreExclusive, InCore, Recorded, UsesCore
    <2>3. CASE thr[t].pc = "core_unlocking" /\ core' = NONE /\ UNCHANGED <<locking, holder>>
      <3>1. thr'[t].pc \in {"fetch", "idle"}
        BY <1>11, <2>3, GotoFacts, ReturnFacts DEF sys_unlock_tcpip_core, CallerPc, TcpipPc
      <3> QED BY Zenon, <2>1, <2>3, <3>1 DEF CoreExclusive, InCore, Recorded, UsesCore
    <2> QED BY Zenon, <1>11, <2>2, <2>3 DEF sys_unlock_tcpip_core
  <1> QED
    BY Zenon, <1>1, <1>2, <1>3, <1>4, <1>5, <1>6, <1>7, <1>8, <1>9, <1>10, <1>11
       DEF TcpipNext, ThreadStep, tcpip_callback, tcpip_timeout, tcpip_untimeout, tcpip_try_callback,
           tcpip_inpkt, tcpip_api_call, tcpip_send_msg_wait_sem, tcpip_callback_wait

\* Stack code runs in the thread that sys_check_core_locking expects (HolderIsRunner): with
\* core locking the thread whose name sys_lock_tcpip_core recorded, which no other thread
\* overwrites before sys_unlock_tcpip_core forgets it; without, the tcpip thread.
THEOREM RunnerIsRecorded == TcpipSpec => []HolderIsRunner
  <1> DEFINE Inv == TcpipTypeOK /\ CoreExclusive
  <1>1. tcpip_init => Inv
    BY MboxInit DEF MboxInv, tcpip_init, CoreExclusive, InCore, Recorded, UsesCore
  <1>2. Inv /\ [TcpipNext]_tcpipVars => Inv'
    <2>1. ASSUME Inv, UNCHANGED tcpipVars PROVE Inv'
      BY Zenon, <2>1 DEF tcpipVars, TcpipTypeOK, CoreExclusive, InCore, Recorded, UsesCore
    <2> QED BY Zenon, <2>1, TypeStep, CoreStep
  <1>3. Inv => HolderIsRunner
    BY DEF HolderIsRunner, TcpipTypeOK, CoreExclusive, Recorded, UsesCore, CallerPc, THREADS
  <1> QED BY <1>1, <1>2, <1>3, PTL DEF TcpipSpec

-----------------------------------------------------------------------------
\* A caller that is not idle carries the message of its call,
MessagesNamed ==
  \A t \in CALLERS : IF thr[t].pc = "idle" THEN thr[t].msg = EMPTY
                     ELSE thr[t].op \in OPS /\ thr[t].msg = [type |-> thr[t].op, from |-> t]
\* only a waiting call gets to these program points,
WaitersAreCalls ==
  \A t \in CALLERS : thr[t].pc \in {"wait_sem", "core_lock", "core_locked", "run", "core_unlock", "core_unlocking"}
                       => thr[t].op = "call"
\* is not signalled before its message is in the ring,
NewCallsUnsignalled ==
  \A t \in CALLERS : thr[t].pc \in {"lock", "posting", "full", "wait_not_full", "relock"} => ~thr[t].signalled
\* and until it is signalled the message is there or being handled;
PostedInTransit ==
  \A t \in CALLERS : thr[t].pc = "posted" /\ thr[t].op = "call" /\ ~thr[t].signalled =>
    thr[TCPIP].msg = thr[t].msg \/ \E k \in 1 .. Len(q) : q[k] = thr[t].msg
\* the tcpip thread carries one only from the fetch until it has been handled.
EmptyHanded ==
  thr[TCPIP].pc \in {"fetch", "fetching", "wait_not_empty", "timeouts", "core_unlock", "core_unlocking"}
    => thr[TCPIP].msg = EMPTY
MessagesCarried ==
  MessagesNamed /\ WaitersAreCalls /\ NewCallsUnsignalled /\ PostedInTransit /\ EmptyHanded
CallInv == TcpipTypeOK /\ MessagesCarried /\ CallsAccounted

\* Steps that neither move a message nor end a call.
CallsGoOn ==
  /\ q' = q /\ thr'[TCPIP].msg = thr[TCPIP].msg
  /\ \A t \in CALLERS : t \in Awaiting => t \in Awaiting'
  /\ \A t \in CALLERS : t \in Awaiting' => t \in Awaiting /\ thr'[t].msg = thr[t].msg

\* Steps that leave waiting calls and the mailbox alone keep the calls accounted for.
LEMMA CallsGoOnStep == ASSUME CallInv, CallsGoOn, TcpipTypeOK', MessagesCarried' PROVE CallsAccounted'
  <1> USE DEF CallInv, CallsGoOn
  <1>1. \A t \in CALLERS : t \in Awaiting =>
          thr[TCPIP].msg = thr[t].msg \/ \E k \in 1 .. Len(q) : q[k] = thr[t].msg
    BY Zenon DEF Awaiting, CallsAccounted, MessagesCarried, PostedInTransit
  <1>2. \A t \in CALLERS : thr'[t].pc = "wait_sem" /\ ~thr'[t].signalled => t \in Awaiting'
    BY Zenon DEF Awaiting, MessagesCarried, WaitersAreCalls
  <1>3. \A t \in CALLERS : thr'[t].pc = "wait_sem" /\ ~thr'[t].signalled =>
          thr'[TCPIP].msg = thr'[t].msg \/ \E k \in 1 .. Len(q') : q'[k] = thr'[t].msg
    BY Zenon, <1>1, <1>2
  <1>4. \A t : t \in Awaiting => t \in Awaiting'
    BY Zenon DEF Awaiting
  <1>5. \A k \in 1 .. Len(q') : q'[k].type = "call" =>
          /\ q'[k].from \in Awaiting' /\ thr'[TCPIP].msg # q'[k]
          /\ \A j \in 1 .. Len(q') : q'[j] = q'[k] => j = k
    BY <1>4 DEF CallsAccounted
  <1>6. thr'[TCPIP].msg.type = "call" => thr'[TCPIP].msg.from \in Awaiting'
    BY Zenon, <1>4 DEF CallsAccounted
  <1> QED BY Zenon, <1>3, <1>5, <1>6 DEF CallsAccounted

\* Only a thread at the end of its call carries EMPTY, and messages name their callers.
LEMMA MessageNames ==
    /\ \A t \in CALLERS, op \in OPS : [type |-> op, from |-> t].type = op /\ [type |-> op, from |-> t].from = t
    /\ EMPTY.type = NONE /\ NONE \notin OPS
  BY Zenon DEF EMPTY, OPS, NONE

\* The message a calling thread carries is named after its operation and itself.
LEMMA CarriedNames ==
    ASSUME MessagesCarried, NEW t \in CALLERS, thr[t].pc # "idle"
    PROVE  thr[t].op \in OPS /\ thr[t].msg.type = thr[t].op /\ thr[t].msg.from = t
  <1>1. thr[t].op \in OPS /\ thr[t].msg = [type |-> thr[t].op, from |-> t]
    BY DEF MessagesCarried, MessagesNamed
  <1> QED BY <1>1

\* Taking a message, or making one for a call.
LEMMA BeginStep ==
    ASSUME CallInv, NEW t \in CALLERS, NEW op \in OPS, NEW pc \in {"lock", "core_lock"}, q' = q,
           thr[t].pc = "idle", pc = "core_lock" => op = "call", TcpipTypeOK',
           thr' = [thr EXCEPT ![t] = [pc |-> pc, op |-> op, msg |-> [type |-> op, from |-> t], signalled |-> FALSE]]
    PROVE  CallInv'
  <1> USE Threads DEF CallInv
  <1>1. /\ thr'[t].pc = pc /\ thr'[t].op = op /\ thr'[t].msg = [type |-> op, from |-> t] /\ ~thr'[t].signalled
        /\ \A u \in THREADS \ {t} : thr'[u] = thr[u]
    BY Zenon DEF TcpipTypeOK
  <1>2. MessagesCarried'
    <2>1. MessagesNamed'
      BY <1>1 DEF MessagesCarried, MessagesNamed
    <2>2. WaitersAreCalls'
      BY <1>1 DEF MessagesCarried, WaitersAreCalls
    <2>3. NewCallsUnsignalled'
      BY <1>1 DEF MessagesCarried, NewCallsUnsignalled
    <2>4. PostedInTransit'
      BY <1>1 DEF MessagesCarried, PostedInTransit
    <2>5. EmptyHanded'
      BY <1>1 DEF MessagesCarried, EmptyHanded
    <2> QED BY Zenon, <2>1, <2>2, <2>3, <2>4, <2>5 DEF MessagesCarried
  <1>3. CallsGoOn
    BY Zenon, <1>1 DEF CallsGoOn, Awaiting
  <1> QED BY Zenon, <1>2, <1>3, CallsGoOnStep

\* A thread moves on, with its message, without storing or fetching one.
LEMMA MoveStep ==
    ASSUME CallInv, NEW t \in THREADS, NEW pc \in CallerPc \cup TcpipPc, Goto(t, pc), q' = q, TcpipTypeOK',
           thr[t].pc # "idle", pc # "idle",
           t \in CALLERS => /\ pc = "posted" => thr[t].pc = "posted"
                            /\ pc = "wait_sem" <=> (thr[t].pc = "posted" /\ thr[t].op = "call")
                            /\ thr[t].pc # "wait_sem"
                            /\ pc \in {"core_lock", "core_locked", "run", "core_unlock", "core_unlocking"}
                                 => thr[t].op = "call"
                            /\ pc \in {"lock", "posting", "full", "wait_not_full", "relock"}
                                 => thr[t].pc \in {"lock", "posting", "full", "wait_not_full", "relock"},
           t = TCPIP /\ pc \in {"fetch", "fetching", "wait_not_empty", "timeouts", "core_unlock", "core_unlocking"}
             => thr[TCPIP].msg = EMPTY
    PROVE  CallInv'
  <1> USE Threads DEF CallInv
  <1>1. /\ thr'[t].pc = pc /\ \A u \in THREADS \ {t} : thr'[u] = thr[u]
        /\ \A u \in THREADS : /\ thr'[u].msg = thr[u].msg /\ thr'[u].op = thr[u].op
                              /\ thr'[u].signalled = thr[u].signalled
    BY Zenon, GotoFacts DEF TcpipTypeOK
  <1>2. MessagesCarried'
    <2>1. MessagesNamed'
      BY <1>1 DEF MessagesCarried, MessagesNamed
    <2>2. WaitersAreCalls'
      BY <1>1 DEF MessagesCarried, WaitersAreCalls
    <2>3. NewCallsUnsignalled'
      BY <1>1 DEF MessagesCarried, NewCallsUnsignalled
    <2>4. PostedInTransit'
      BY <1>1 DEF MessagesCarried, PostedInTransit
    <2>5. EmptyHanded'
      BY <1>1 DEF MessagesCarried, EmptyHanded
    <2> QED BY Zenon, <2>1, <2>2, <2>3, <2>4, <2>5 DEF MessagesCarried
  <1>3. CallsGoOn
    BY Zenon, <1>1 DEF CallsGoOn, Awaiting
  <1> QED BY Zenon, <1>2, <1>3, CallsGoOnStep

\* A call returns: it did not post, was refused, or was answered.
LEMMA ReturnStep ==
    ASSUME CallInv, NEW t \in CALLERS, Return(t), q' = q, TcpipTypeOK', t \notin Awaiting
    PROVE  CallInv'
  <1> USE Threads DEF CallInv
  <1>1. /\ thr'[t].pc = "idle" /\ thr'[t].msg = EMPTY
        /\ \A u \in THREADS \ {t} : thr'[u] = thr[u]
    BY Zenon, ReturnFacts DEF TcpipTypeOK
  <1>2. MessagesCarried'
    <2>1. MessagesNamed'
      BY <1>1 DEF MessagesCarried, MessagesNamed
    <2>2. WaitersAreCalls'
      BY <1>1 DEF MessagesCarried, WaitersAreCalls
    <2>3. NewCallsUnsignalled'
      BY <1>1 DEF MessagesCarried, NewCallsUnsignalled
    <2>4. PostedInTransit'
      BY <1>1 DEF MessagesCarried, PostedInTransit
    <2>5. EmptyHanded'
      BY <1>1 DEF MessagesCarried, EmptyHanded
    <2> QED BY Zenon, <2>1, <2>2, <2>3, <2>4, <2>5 DEF MessagesCarried
  <1>3. CallsGoOn
    BY Zenon, <1>1 DEF CallsGoOn, Awaiting
  <1> QED BY Zenon, <1>2, <1>3, CallsGoOnStep

\* A caller's message is stored: it was nowhere else.
LEMMA StoreCallStep ==
    ASSUME CallInv, NEW t \in CALLERS, thr[t].pc = "posting", StoreIn(thr[t].msg), Goto(t, "posted"), TcpipTypeOK'
    PROVE  CallInv'
  <1> USE Threads DEF CallInv
  <1> DEFINE m == thr[t].msg
             n == Len(q)
  <1>1. /\ thr'[t].pc = "posted" /\ \A u \in THREADS \ {t} : thr'[u] = thr[u]
        /\ \A u \in THREADS : /\ thr'[u].msg = thr[u].msg /\ thr'[u].op = thr[u].op
                              /\ thr'[u].signalled = thr[u].signalled
    BY Zenon, GotoFacts DEF TcpipTypeOK, CallerPc
  <1>2. m = [type |-> thr[t].op, from |-> t] /\ m.type = thr[t].op /\ m.from = t /\ ~thr[t].signalled
    BY DEF MessagesCarried, MessagesNamed, NewCallsUnsignalled
  <1>3. q \in Seq(MSGS) /\ q' = Append(q, m) /\ m \in MSGS
    BY Zenon DEF StoreIn, TcpipTypeOK, THR
  <1>4. n \in Nat /\ Len(q') = n + 1 /\ q'[n + 1] = m /\ \A k \in 1 .. n : q'[k] = q[k]
    BY <1>3
  <1> HIDE DEF m, n
  <1>5. 1 .. Len(q') = 1 .. n \cup {n + 1} /\ 1 .. Len(q) = 1 .. n
    BY <1>4 DEF n
  <1>6. MessagesCarried'
    <2>1. MessagesNamed'
      BY <1>1 DEF MessagesCarried, MessagesNamed
    <2>2. WaitersAreCalls'
      BY <1>1 DEF MessagesCarried, WaitersAreCalls
    <2>3. NewCallsUnsignalled'
      BY <1>1 DEF MessagesCarried, NewCallsUnsignalled
    <2>4. PostedInTransit'
      BY <1>1, <1>4, <1>5 DEF MessagesCarried, PostedInTransit, m
    <2>5. EmptyHanded'
      BY <1>1 DEF MessagesCarried, EmptyHanded
    <2> QED BY Zenon, <2>1, <2>2, <2>3, <2>4, <2>5 DEF MessagesCarried
  <1>7. \A u \in CALLERS : thr'[u].pc = "wait_sem" /\ ~thr'[u].signalled =>
          thr'[TCPIP].msg = thr'[u].msg \/ \E k \in 1 .. Len(q') : q'[k] = thr'[u].msg
    BY <1>1, <1>4, <1>5 DEF CallsAccounted
  <1>8. t \notin Awaiting /\ \A u : u \in Awaiting => u \in Awaiting'
    BY Zenon, <1>1 DEF Awaiting
  <1>9. m.type = "call" => t \in Awaiting'
    BY Zenon, <1>1, <1>2 DEF Awaiting
  <1>10. thr[TCPIP].msg # m \/ m.type # "call"
    BY Zenon, <1>2, <1>8 DEF CallsAccounted
  <1>11. \A k \in 1 .. n : q[k].type = "call" => q[k] # m
    <2>1. \A k \in 1 .. n : q[k].type = "call" => q[k].from \in Awaiting
      BY Zenon, <1>5 DEF CallsAccounted
    <2> QED BY Zenon, <1>2, <1>8, <2>1
  <1>12. \A k \in 1 .. Len(q') : q'[k].type = "call" =>
           /\ q'[k].from \in Awaiting' /\ thr'[TCPIP].msg # q'[k]
           /\ \A j \in 1 .. Len(q') : q'[j] = q'[k] => j = k
    <2> SUFFICES ASSUME NEW k \in 1 .. Len(q'), q'[k].type = "call"
                 PROVE  /\ q'[k].from \in Awaiting' /\ thr'[TCPIP].msg # q'[k]
                        /\ \A j \in 1 .. Len(q') : q'[j] = q'[k] => j = k
      BY Zenon
    <2>1. CASE k \in 1 .. n
      BY <1>1, <1>4, <1>5, <1>8, <1>11, <2>1 DEF CallsAccounted
    <2>2. CASE k = n + 1
      BY <1>1, <1>2, <1>4, <1>5, <1>9, <1>10, <1>11, <2>2
    <2> QED BY Zenon, <1>5, <2>1, <2>2
  <1>13. thr'[TCPIP].msg.type = "call" => thr'[TCPIP].msg.from \in Awaiting'
    BY Zenon, <1>1, <1>8 DEF CallsAccounted
  <1>14. CallsAccounted'
    BY Zenon, <1>7, <1>12, <1>13 DEF CallsAccounted
  <1> QED BY Zenon, <1>6, <1>14

\* A message is fetched: it leaves the ring for the tcpip thread's empty hands.
LEMMA FetchCallStep ==
    ASSUME CallInv, sys_arch_mbox_fetch, q # << >>, TcpipTypeOK'
    PROVE  CallInv'
  <1> USE Threads DEF CallInv
  <1> DEFINE n == Len(q)
  <1>1. /\ thr[TCPIP].pc = "fetching" /\ thr[TCPIP].msg = EMPTY
        /\ thr'[TCPIP].pc = "fetched" /\ thr'[TCPIP].msg = q[1]
        /\ \A u \in THREADS \ {TCPIP} : thr'[u] = thr[u]
    BY DEF sys_arch_mbox_fetch, TcpipTypeOK, THR, MessagesCarried, EmptyHanded
  <1>2. q \in Seq(MSGS) /\ q' = Tail(q) /\ n \in Nat \ {0}
    BY DEF sys_arch_mbox_fetch, TcpipTypeOK
  <1>3. Len(q') = n - 1 /\ \A k \in 1 .. n - 1 : q'[k] = q[k + 1]
    BY <1>2
  <1> HIDE DEF n
  <1>4. /\ \A k \in 1 .. Len(q') : k + 1 \in 1 .. Len(q) /\ k + 1 # 1 /\ q'[k] = q[k + 1]
        /\ \A k \in 1 .. Len(q) \ {1} : k - 1 \in 1 .. Len(q') /\ q'[k - 1] = q[k]
        /\ 1 \in 1 .. Len(q)
    BY <1>2, <1>3 DEF n
  <1>5. \A u : u \in Awaiting' <=> u \in Awaiting
    BY Zenon, <1>1 DEF Awaiting
  <1>6. \A m \in MSGS : (\E k \in 1 .. Len(q) : q[k] = m) =>
          thr'[TCPIP].msg = m \/ \E k \in 1 .. Len(q') : q'[k] = m
    BY <1>1, <1>4
  <1>7. \A u \in CALLERS : thr[u].msg \in MSGS
    BY Zenon DEF TcpipTypeOK, THR
  <1>8. \A u \in CALLERS : thr[u].pc # "idle" => thr[u].msg # EMPTY
    <2>1. \A u \in CALLERS : thr[u].pc # "idle" => thr[u].op \in OPS /\ thr[u].msg.type = thr[u].op
      BY Zenon, CarriedNames
    <2> QED BY Zenon, <2>1, MessageNames
  <1>9. \A u \in CALLERS : thr'[u].pc = "wait_sem" /\ ~thr'[u].signalled =>
          thr'[TCPIP].msg = thr'[u].msg \/ \E k \in 1 .. Len(q') : q'[k] = thr'[u].msg
    BY <1>1, <1>6, <1>7, <1>8 DEF CallsAccounted
  <1>10. MessagesCarried'
    <2>1. MessagesNamed'
      BY <1>1, <1>8 DEF MessagesCarried, MessagesNamed
    <2>2. WaitersAreCalls'
      BY <1>1 DEF MessagesCarried, WaitersAreCalls
    <2>3. NewCallsUnsignalled'
      BY <1>1 DEF MessagesCarried, NewCallsUnsignalled
    <2>4. PostedInTransit'
      BY <1>1, <1>6, <1>7, <1>8 DEF MessagesCarried, PostedInTransit
    <2>5. EmptyHanded'
      BY <1>1 DEF MessagesCarried, EmptyHanded
    <2> QED BY Zenon, <2>1, <2>2, <2>3, <2>4, <2>5 DEF MessagesCarried
  <1>11. \A k \in 1 .. Len(q') : q'[k].type = "call" =>
           /\ q'[k].from \in Awaiting' /\ thr'[TCPIP].msg # q'[k]
           /\ \A j \in 1 .. Len(q') : q'[j] = q'[k] => j = k
    <2> SUFFICES ASSUME NEW k \in 1 .. Len(q'), q'[k].type = "call"
                 PROVE  /\ q'[k].from \in Awaiting' /\ thr'[TCPIP].msg # q'[k]
                        /\ \A j \in 1 .. Len(q') : q'[j] = q'[k] => j = k
      BY Zenon
    <2>1. k + 1 \in 1 .. Len(q) /\ k + 1 # 1 /\ q'[k] = q[k + 1]
      BY Zenon, <1>4
    <2>2. q[k + 1].from \in Awaiting /\ \A j \in 1 .. Len(q) : q[j] = q[k + 1] => j = k + 1
      BY Zenon, <2>1 DEF CallsAccounted
    <2>3. \A j \in 1 .. Len(q') : q'[j] = q'[k] => j + 1 = k + 1
      BY Zenon, <1>4, <2>1, <2>2
    <2>4. \A j \in 1 .. Len(q') : j + 1 = k + 1 => j = k
      OBVIOUS
    <2> QED BY Zenon, <1>1, <1>4, <1>5, <2>1, <2>2, <2>3, <2>4
  <1>12. thr'[TCPIP].msg.type = "call" => thr'[TCPIP].msg.from \in Awaiting'
    BY <1>1, <1>4, <1>5 DEF CallsAccounted
  <1>13. CallsAccounted'
    BY Zenon, <1>9, <1>11, <1>12 DEF CallsAccounted
  <1> QED BY Zenon, <1>10, <1>13

\* Handling a message leaves every caller its own, and the tcpip thread none.
LEMMA HandleKeeps ==
    ASSUME TcpipTypeOK, tcpip_thread_handle_msg
    PROVE  thr'[TCPIP].msg = EMPTY /\ \A u \in CALLERS : thr'[u].msg = thr[u].msg
  <1> USE Threads
  <1> DEFINE m == thr[TCPIP].msg
             idle == [pc |-> IF locking THEN "core_unlock" ELSE "fetch", op |-> NONE, msg |-> EMPTY, signalled |-> FALSE]
             done == [thr EXCEPT ![TCPIP] = idle]
  <1>1. idle \in THR
    BY Zenon, NewMessages DEF THR, TcpipPc, OPS
  <1>2. done \in [THREADS -> THR] /\ done[TCPIP].msg = EMPTY /\ \A u \in CALLERS : done[u] = thr[u]
    BY Zenon, <1>1 DEF TcpipTypeOK
  <1>3. thr' = IF Waits(m.type) THEN [done EXCEPT ![m.from].signalled = TRUE] ELSE done
    BY Zenon DEF tcpip_thread_handle_msg
  <1> HIDE DEF done
  <1>4. \A u \in THREADS : [done EXCEPT ![m.from].signalled = TRUE][u].msg = done[u].msg
    BY <1>2 DEF THR
  <1> QED BY Zenon, <1>2, <1>3, <1>4

\* A message is handled: a waiting caller is signalled, and nothing of the call is left.
LEMMA HandleCallStep ==
    ASSUME CallInv, tcpip_thread_handle_msg, TcpipTypeOK'
    PROVE  CallInv'
  <1> USE Threads DEF CallInv
  <1> DEFINE m == thr[TCPIP].msg
             idle == [pc |-> IF locking THEN "core_unlock" ELSE "fetch", op |-> NONE, msg |-> EMPTY, signalled |-> FALSE]
             done == [thr EXCEPT ![TCPIP] = idle]
  <1>1. m \in MSGS /\ m.from # TCPIP /\ (m.type = "call" => m.from \in Awaiting)
    BY Zenon DEF TcpipTypeOK, THR, MSGS, TCPIP, NONE, CallsAccounted
  <1>2. done[TCPIP] = idle /\ (\A u \in CALLERS : done[u] = thr[u]) /\ q' = q
    BY Zenon DEF tcpip_thread_handle_msg, TcpipTypeOK
  <1>3. done \in [THREADS -> THR]
    <2>1. idle \in THR
      BY Zenon, NewMessages DEF THR, TcpipPc, OPS
    <2> QED BY Zenon, <2>1 DEF TcpipTypeOK
  <1>4. thr' = IF m.type = "call" THEN [done EXCEPT ![m.from].signalled = TRUE] ELSE done
    BY Zenon DEF tcpip_thread_handle_msg, Waits
  <1> HIDE DEF done, m
  <1>5. /\ thr'[TCPIP] = idle
        /\ \A u \in CALLERS : /\ thr'[u].pc = thr[u].pc /\ thr'[u].op = thr[u].op /\ thr'[u].msg = thr[u].msg
                              /\ m.type = "call" /\ u = m.from => thr'[u].signalled
                              /\ m.type # "call" \/ u # m.from => thr'[u] = thr[u]
    BY ZenonT(40), <1>1, <1>2, <1>3, <1>4 DEF THR
  <1>6. thr'[TCPIP].msg = EMPTY /\ thr'[TCPIP].msg.type = NONE /\ thr'[TCPIP].msg.type # "call"
    BY <1>5, MessageNames DEF NONE
  <1>7. \A u \in CALLERS : thr[u].pc # "idle" /\ thr[u].msg = m /\ thr[u].op = "call" => thr'[u].signalled
    <2>1. \A u \in CALLERS : thr[u].pc # "idle" => thr[u].msg.type = thr[u].op /\ thr[u].msg.from = u
      BY Zenon, CarriedNames
    <2> QED BY <1>5, <2>1
  <1>8. \A u \in Awaiting : u # m.from \/ m.type # "call" => u \in Awaiting'
    BY Zenon, <1>5 DEF Awaiting
  <1>9. \A k \in 1 .. Len(q) : q[k].type = "call" /\ m.type = "call" => q[k].from # m.from
    <2>1. \A k \in 1 .. Len(q) : q[k] \in MSGS
      BY DEF TcpipTypeOK
    <2>2. \A x \in MSGS : x.type = m.type /\ x.from = m.from => x = m
      BY <1>1 DEF MSGS
    <2> QED BY Zenon, <2>1, <2>2 DEF CallsAccounted, m
  <1>10. \A u \in CALLERS : thr'[u].pc = "wait_sem" /\ ~thr'[u].signalled =>
          thr'[TCPIP].msg = thr'[u].msg \/ \E k \in 1 .. Len(q') : q'[k] = thr'[u].msg
    <2>1. \A u \in CALLERS : thr[u].pc = "wait_sem" /\ ~thr[u].signalled =>
            thr[u].op = "call" /\ (m = thr[u].msg \/ \E k \in 1 .. Len(q) : q[k] = thr[u].msg)
      BY Zenon DEF CallsAccounted, MessagesCarried, WaitersAreCalls, m
    <2> QED BY <1>2, <1>5, <1>7, <2>1
  <1>11. \A k \in 1 .. Len(q') : q'[k].type = "call" =>
           /\ q'[k].from \in Awaiting' /\ thr'[TCPIP].msg # q'[k]
           /\ \A j \in 1 .. Len(q') : q'[j] = q'[k] => j = k
    <2>1. \A k \in 1 .. Len(q) : q[k].type = "call" =>
            q[k].from \in Awaiting /\ \A j \in 1 .. Len(q) : q[j] = q[k] => j = k
      BY Zenon DEF CallsAccounted
    <2> QED BY Zenon, <1>2, <1>6, <1>8, <1>9, <2>1
  <1>12. CallsAccounted'
    BY Zenon, <1>6, <1>10, <1>11 DEF CallsAccounted
  <1>13. MessagesCarried'
    <2>1. \A u \in CALLERS : thr'[u].pc = "posted" /\ thr'[u].op = "call" /\ ~thr'[u].signalled =>
            thr'[TCPIP].msg = thr'[u].msg \/ \E k \in 1 .. Len(q') : q'[k] = thr'[u].msg
      <3>1. \A u \in CALLERS : thr[u].pc = "posted" /\ thr[u].op = "call" /\ ~thr[u].signalled =>
              m = thr[u].msg \/ \E k \in 1 .. Len(q) : q[k] = thr[u].msg
        BY Zenon DEF MessagesCarried, PostedInTransit, m
      <3>2. ASSUME NEW u \in CALLERS, thr'[u].pc = "posted" /\ thr'[u].op = "call" /\ ~thr'[u].signalled
            PROVE  thr'[TCPIP].msg = thr'[u].msg \/ \E k \in 1 .. Len(q') : q'[k] = thr'[u].msg
        <4>1. thr[u].pc = "posted" /\ thr[u].op = "call" /\ thr'[u].msg = thr[u].msg /\ ~thr[u].signalled
          BY Zenon, <1>5, <3>2
        <4>2. m # thr[u].msg
          BY Zenon, <1>7, <3>2, <4>1
        <4> QED BY Zenon, <1>2, <3>1, <4>1, <4>2
      <3> QED BY Zenon, <3>2
    <2>2. \A u \in CALLERS : thr[u].pc \in {"lock", "posting", "full", "wait_not_full", "relock"} => u \notin Awaiting
      BY Zenon DEF Awaiting
    <2>3. \A u \in CALLERS : thr[u].pc \in {"lock", "posting", "full", "wait_not_full", "relock"} => ~thr'[u].signalled
      BY Zenon, <1>1, <1>5, <2>2 DEF MessagesCarried, NewCallsUnsignalled
    <2>4. MessagesNamed' /\ WaitersAreCalls'
      BY ZenonT(40), <1>5 DEF MessagesCarried, MessagesNamed, WaitersAreCalls
    <2>5. NewCallsUnsignalled'
      BY Zenon, <1>5, <2>3 DEF NewCallsUnsignalled
    <2>6. PostedInTransit'
      BY Zenon, <2>1 DEF PostedInTransit
    <2>7. EmptyHanded'
      BY Zenon, <1>6 DEF EmptyHanded
    <2> QED BY Zenon, <2>4, <2>5, <2>6, <2>7 DEF MessagesCarried
  <1> QED BY Zenon, <1>12, <1>13

\* Every step keeps the invariant of calls.
LEMMA CallStep == ASSUME CallInv, TcpipNext PROVE CallInv'
  <1>0. TcpipTypeOK /\ TcpipTypeOK' /\ MessagesCarried /\ CallsAccounted
    BY Zenon, TypeStep DEF CallInv
  <1> USE Threads, <1>0
  <1>1. ASSUME NEW t \in CALLERS, NEW op \in {"callback", "try_callback", "inpkt"}, Take(t, op) PROVE CallInv'
    BY Zenon, <1>1, BeginStep DEF Take, OPS
  <1>2. ASSUME NEW t \in CALLERS, Call(t) PROVE CallInv'
    BY Zenon, <1>2, BeginStep DEF Call, OPS
  <1>3. ASSUME NEW t \in THREADS, LockMbox(t) PROVE CallInv'
    <2> DEFINE pc == IF thr[t].pc = "fetch" THEN "fetching" ELSE "posting"
    <2>1. /\ thr[t].pc \in {"lock", "relock", "fetch"} /\ Goto(t, pc) /\ q' = q
          /\ (t = TCPIP => thr[t].pc = "fetch") /\ (t \in CALLERS => thr[t].pc # "fetch")
      BY Zenon, <1>3 DEF LockMbox, TcpipTypeOK, TcpipPc, CallerPc
    <2>2. t = TCPIP => thr[TCPIP].msg = EMPTY
      BY Zenon, <2>1 DEF MessagesCarried, EmptyHanded
    <2>3. pc \in CallerPc \cup TcpipPc
      BY Zenon DEF CallerPc, TcpipPc
    <2> QED BY Zenon, <2>1, <2>2, <2>3, MoveStep
  <1>4. ASSUME NEW t \in THREADS, UnlockMbox(t) PROVE CallInv'
    <2>0. q' = q /\ (t = TCPIP <=> thr[t].pc = "fetched") /\ (t # TCPIP => t \in CALLERS)
      BY <1>4 DEF UnlockMbox, TcpipTypeOK, TcpipPc, CallerPc, THREADS
    <2>1. CASE thr[t].pc = "posted" /\ Waits(thr[t].op)
      BY Zenon, <1>4, <2>0, <2>1, MoveStep DEF UnlockMbox, CallerPc, Waits
    <2>2. CASE thr[t].pc = "posted" /\ ~Waits(thr[t].op)
      <3>1. Return(t) /\ t \notin Awaiting
        BY Zenon, <1>4, <2>2 DEF UnlockMbox, Waits, Awaiting
      <3> QED BY Zenon, <2>0, <2>2, <3>1, ReturnStep
    <2>3. CASE thr[t].pc = "fetched"
      BY Zenon, <1>4, <2>0, <2>3, MoveStep DEF UnlockMbox, TcpipPc
    <2>4. CASE thr[t].pc = "full"
      BY Zenon, <1>4, <2>0, <2>4, MoveStep DEF UnlockMbox, CallerPc
    <2> QED BY <1>4, <2>1, <2>2, <2>3, <2>4 DEF UnlockMbox
  <1>5. ASSUME NEW t \in THREADS, sys_mbox_post(t) PROVE CallInv'
    <2>0. t \in CALLERS /\ thr[t].pc = "posting"
      BY Zenon, <1>5 DEF sys_mbox_post, TcpipTypeOK, TcpipPc, THREADS
    <2>1. CASE Full
      BY Zenon, <1>5, <2>0, <2>1, MoveStep DEF sys_mbox_post, CallerPc
    <2>2. CASE ~Full
      BY Zenon, <1>5, <2>0, <2>2, StoreCallStep DEF sys_mbox_post
    <2> QED BY Zenon, <2>1, <2>2
  <1>6. ASSUME NEW t \in THREADS, sys_mbox_trypost(t) PROVE CallInv'
    <2>0. t \in CALLERS /\ thr[t].pc = "posting" /\ t \notin Awaiting
      BY Zenon, <1>6 DEF sys_mbox_trypost, TcpipTypeOK, TcpipPc, THREADS, Awaiting
    <2>1. CASE Full
      BY Zenon, <1>6, <2>0, <2>1, ReturnStep DEF sys_mbox_trypost
    <2>2. CASE ~Full
      BY Zenon, <1>6, <2>0, <2>2, StoreCallStep DEF sys_mbox_trypost
    <2> QED BY Zenon, <2>1, <2>2
  <1>7. ASSUME NEW t \in THREADS, AwaitRoom(t) PROVE CallInv'
    <2>1. t \in CALLERS /\ thr[t].pc = "wait_not_full" /\ Goto(t, "relock") /\ q' = q
      BY Zenon, <1>7 DEF AwaitRoom, TcpipTypeOK, TcpipPc, THREADS
    <2> QED BY Zenon, <2>1, MoveStep DEF CallerPc
  <1>8. ASSUME NEW t \in THREADS, AwaitAnswer(t) PROVE CallInv'
    <2>1. t \in CALLERS /\ t \notin Awaiting /\ Return(t) /\ q' = q
      BY Zenon, <1>8 DEF AwaitAnswer, TcpipTypeOK, TcpipPc, THREADS, Awaiting
    <2> QED BY Zenon, <2>1, ReturnStep
  <1>9. ASSUME NEW t \in THREADS, RunFunction(t) PROVE CallInv'
    <2>1. t \in CALLERS /\ thr[t].pc = "run" /\ Goto(t, "core_unlock") /\ q' = q /\ thr[t].op = "call"
      BY Zenon, <1>9 DEF RunFunction, TcpipTypeOK, TcpipPc, THREADS, MessagesCarried, WaitersAreCalls
    <2> QED BY Zenon, <2>1, MoveStep DEF CallerPc
  <1>10. ASSUME NEW t \in THREADS, sys_lock_tcpip_core(t) PROVE CallInv'
    <2> DEFINE pc == IF thr[t].pc = "core_lock" THEN "core_locked"
                     ELSE IF t # TCPIP THEN "run" ELSE IF thr[t].msg = EMPTY THEN "timeouts" ELSE "handle"
    <2>1. thr[t].pc \in {"core_lock", "core_locked"} /\ Goto(t, pc) /\ q' = q
      BY Zenon, <1>10 DEF sys_lock_tcpip_core
    <2>2. t \in CALLERS => thr[t].op = "call"
      BY Zenon, <2>1 DEF MessagesCarried, WaitersAreCalls
    <2>3. pc \in CallerPc \cup TcpipPc
      BY Zenon DEF CallerPc, TcpipPc
    <2> QED BY Zenon, <2>1, <2>2, <2>3, MoveStep DEF THREADS
  <1>11. ASSUME NEW t \in THREADS, sys_unlock_tcpip_core(t) PROVE CallInv'
    <2>0. /\ thr[t].pc \in {"core_unlock", "core_unlocking"} /\ q' = q
          /\ t \in CALLERS => thr[t].op = "call" /\ t \notin Awaiting
          /\ t = TCPIP => thr[t].msg = EMPTY
      BY Zenon, <1>11 DEF sys_unlock_tcpip_core, MessagesCarried, WaitersAreCalls, EmptyHanded, Awaiting
    <2>1. CASE thr[t].pc = "core_unlock"
      BY Zenon, <1>11, <2>0, <2>1, MoveStep DEF sys_unlock_tcpip_core, CallerPc
    <2>2. CASE thr[t].pc = "core_unlocking" /\ t = TCPIP
      BY Zenon, <1>11, <2>0, <2>2, MoveStep DEF sys_unlock_tcpip_core, TcpipPc
    <2>3. CASE thr[t].pc = "core_unlocking" /\ t # TCPIP
      BY <1>11, <2>0, <2>3, ReturnStep DEF sys_unlock_tcpip_core, THREADS
    <2> QED BY Zenon, <2>0, <2>1, <2>2, <2>3
  <1>12. CASE sys_arch_mbox_fetch
    <2>1. CASE q = << >>
      <3>1. thr[TCPIP].pc = "fetching" /\ thr[TCPIP].msg = EMPTY /\ Goto(TCPIP, "wait_not_empty") /\ q' = q
        BY Zenon, <1>12, <2>1 DEF sys_arch_mbox_fetch, MessagesCarried, EmptyHanded
      <3> QED BY Zenon, <3>1, MoveStep DEF TcpipPc
    <2>2. CASE q # << >>
      BY Zenon, <1>12, <2>2, FetchCallStep
    <2> QED BY Zenon, <2>1, <2>2
  <1>13. CASE cond_wait
    <2> DEFINE pc == IF locking THEN "core_lock" ELSE "timeouts"
    <2>1. thr[TCPIP].pc = "wait_not_empty" /\ thr[TCPIP].msg = EMPTY /\ (Goto(TCPIP, "fetch") \/ Goto(TCPIP, pc)) /\ q' = q
      BY Zenon, <1>13 DEF cond_wait, MessagesCarried, EmptyHanded
    <2>2. pc \in TcpipPc /\ pc # "idle" /\ "fetch" \in TcpipPc
      BY Zenon DEF TcpipPc
    <2> QED BY Zenon, <2>1, <2>2, MoveStep
  <1>14. CASE tcpip_mbox_fetch
    <2> DEFINE pc == IF locking THEN "core_unlock" ELSE "fetch"
    <2>1. thr[TCPIP].pc = "timeouts" /\ thr[TCPIP].msg = EMPTY /\ Goto(TCPIP, pc) /\ q' = q
      BY Zenon, <1>14 DEF tcpip_mbox_fetch, MessagesCarried, EmptyHanded
    <2>2. pc \in TcpipPc /\ pc # "idle"
      BY Zenon DEF TcpipPc
    <2> QED BY Zenon, <2>1, <2>2, MoveStep
  <1> QED
    BY Zenon, <1>1, <1>2, <1>3, <1>4, <1>5, <1>6, <1>7, <1>8, <1>9, <1>10, <1>11, <1>12, <1>13, <1>14, HandleCallStep
       DEF TcpipNext, ThreadStep, tcpip_callback, tcpip_timeout, tcpip_untimeout, tcpip_try_callback,
           tcpip_inpkt, tcpip_api_call, tcpip_send_msg_wait_sem, tcpip_callback_wait

\* Nobody has called yet.
LEMMA CallInit == ASSUME tcpip_init PROVE CallInv
  <1>1. TcpipTypeOK
    BY Zenon, MboxInit DEF MboxInv
  <1>2. /\ thr[TCPIP].pc = "fetch" /\ thr[TCPIP].msg = EMPTY /\ q = << >>
        /\ \A t \in CALLERS : thr[t].pc = "idle" /\ thr[t].msg = EMPTY
    BY Zenon, Threads DEF tcpip_init
  <1>3. MessagesCarried
    BY Zenon, <1>2 DEF MessagesCarried, MessagesNamed, WaitersAreCalls, NewCallsUnsignalled, PostedInTransit, EmptyHanded
  <1>4. CallsAccounted
    BY <1>2, MessageNames DEF CallsAccounted, NONE
  <1> QED BY Zenon, <1>1, <1>3, <1>4 DEF CallInv

-----------------------------------------------------------------------------
POOLS == {"api", "inpkt"}
PoolInv == CallInv /\ free \in [POOLS -> Int] /\ PoolsAccounted

\* The threads and the positions that are counted are finitely many.
LEMMA PoolsFinite ==
    ASSUME TcpipTypeOK, NEW pool
    PROVE  /\ IsFiniteSet(Queued(pool)) /\ Cardinality(Queued(pool)) \in Nat
           /\ IsFiniteSet(Carried(pool)) /\ Cardinality(Carried(pool)) \in Nat
  <1>1. Len(q) \in Nat
    BY DEF TcpipTypeOK
  <1>2. IsFiniteSet(1 .. Len(q))
    BY <1>1, FS_Interval
  <1>3. IsFiniteSet(THREADS)
    BY Zenon, TcpipAssumption, FS_AddElement DEF THREADS
  <1>4. Queued(pool) \subseteq 1 .. Len(q) /\ Carried(pool) \subseteq THREADS
    BY Zenon DEF Queued, Carried
  <1>5. IsFiniteSet(Queued(pool)) /\ IsFiniteSet(Carried(pool))
    BY Zenon, <1>2, <1>3, <1>4, FS_Subset
  <1> QED BY Zenon, <1>5, FS_CardinalityType

\* What one thread does to the count of carried messages.
LEMMA CarriedChange ==
    ASSUME TcpipTypeOK, NEW pool, NEW t \in THREADS,
           \A u \in THREADS \ {t} : thr'[u].msg = thr[u].msg /\ thr'[u].pc = thr[u].pc
    PROVE  /\ t \in Carried(pool)' /\ t \notin Carried(pool)
                => Cardinality(Carried(pool)') = Cardinality(Carried(pool)) + 1
           /\ t \notin Carried(pool)' /\ t \in Carried(pool)
                => Cardinality(Carried(pool)') = Cardinality(Carried(pool)) - 1
           /\ (t \in Carried(pool)' <=> t \in Carried(pool)) => Carried(pool)' = Carried(pool)
  <1> DEFINE old == Carried(pool)
             new == Carried(pool)'
  <1>1. old \subseteq THREADS /\ new \subseteq THREADS /\ \A u \in THREADS \ {t} : u \in old <=> u \in new
    BY Zenon DEF Carried
  <1>2. IsFiniteSet(old)
    BY Zenon, PoolsFinite
  <1> HIDE DEF old, new
  <1>3. ASSUME t \in new, t \notin old PROVE Cardinality(new) = Cardinality(old) + 1
    <2>1. new = old \cup {t}
      BY Zenon, <1>1, <1>3
    <2> QED BY Zenon, <2>1, <1>2, <1>3, FS_AddElement
  <1>4. ASSUME t \notin new, t \in old PROVE Cardinality(new) = Cardinality(old) - 1
    <2>1. new = old \ {t}
      BY Zenon, <1>1, <1>4
    <2> QED BY Zenon, <2>1, <1>2, <1>4, FS_RemoveElement
  <1>5. (t \in new <=> t \in old) => new = old
    BY <1>1
  <1> QED BY <1>3, <1>4, <1>5 DEF old, new

\* A message at the end of the ring counts as one of its pool.
LEMMA QueuedAppend ==
    ASSUME TcpipTypeOK, NEW pool, NEW m \in MSGS, q' = Append(q, m)
    PROVE  /\ FromPool(m, pool) => Cardinality(Queued(pool)') = Cardinality(Queued(pool)) + 1
           /\ ~FromPool(m, pool) => Queued(pool)' = Queued(pool)
  <1> DEFINE n == Len(q)
  <1>1. n \in Nat /\ Len(q') = n + 1 /\ q'[n + 1] = m /\ \A k \in 1 .. n : q'[k] = q[k]
    BY DEF TcpipTypeOK
  <1>2. Queued(pool)' = {k \in 1 .. n + 1 : FromPool(q'[k], pool)} /\ Queued(pool) = {k \in 1 .. n : FromPool(q[k], pool)}
    BY Zenon, <1>1 DEF Queued, FromPool
  <1> HIDE DEF n
  <1>3. FromPool(m, pool) => Queued(pool)' = Queued(pool) \cup {n + 1}
    BY <1>1, <1>2
  <1>4. ~FromPool(m, pool) => Queued(pool)' = Queued(pool)
    BY <1>1, <1>2
  <1>5. n + 1 \notin Queued(pool)
    BY <1>1, <1>2
  <1> QED BY Zenon, <1>3, <1>4, <1>5, PoolsFinite, FS_AddElement

\* A message taken from the ring counts as one of its pool.
LEMMA QueuedTail ==
    ASSUME TcpipTypeOK, NEW pool, q # << >>, q' = Tail(q)
    PROVE  /\ FromPool(q[1], pool) => Cardinality(Queued(pool)') = Cardinality(Queued(pool)) - 1
           /\ ~FromPool(q[1], pool) => Cardinality(Queued(pool)') = Cardinality(Queued(pool))
  <1> DEFINE n == Len(q)
             rest == Queued(pool) \ {1}
             f == [k \in Queued(pool)' |-> k + 1]
  <1>1. n \in Nat /\ n >= 1 /\ Len(q') = n - 1 /\ \A k \in 1 .. n - 1 : q'[k] = q[k + 1]
    BY DEF TcpipTypeOK
  <1>2. Queued(pool)' = {k \in 1 .. n - 1 : FromPool(q[k + 1], pool)} /\ Queued(pool) = {k \in 1 .. n : FromPool(q[k], pool)}
    BY Zenon, <1>1 DEF Queued, FromPool
  <1> HIDE DEF n
  <1>3. \A k \in Queued(pool)' : k \in Int /\ k + 1 \in rest
    BY <1>1, <1>2
  <1>4. \A k \in rest : k \in Int /\ k - 1 \in Queued(pool)' /\ (k - 1) + 1 = k
    BY <1>1, <1>2
  <1>5. f \in Bijection(Queued(pool)', rest)
    <2>1. f \in [Queued(pool)' -> rest]
      BY Zenon, <1>3
    <2>2. \A a, b \in Queued(pool)' : f[a] = f[b] => a = b
      BY <1>3
    <2>3. \A k \in rest : \E a \in Queued(pool)' : f[a] = k
      BY Zenon, <1>4
    <2> QED BY Zenon, <2>1, <2>2, <2>3 DEF Bijection, Injection, Surjection, IsInjective
  <1>6. IsFiniteSet(Queued(pool)) /\ IsFiniteSet(Queued(pool)') /\ IsFiniteSet(rest)
    <2>1. 1 \in Int /\ n - 1 \in Int
      BY <1>1
    <2>2. IsFiniteSet(1 .. n - 1)
      BY Zenon, <2>1, FS_Interval
    <2>3. Queued(pool)' \subseteq 1 .. n - 1
      BY Zenon, <1>2
    <2> QED BY Zenon, <2>2, <2>3, PoolsFinite, FS_Subset DEF rest
  <1>7. Cardinality(Queued(pool)') = Cardinality(rest)
    BY Zenon, <1>5, <1>6, FS_Bijection DEF ExistsBijection
  <1>8. FromPool(q[1], pool) => 1 \in Queued(pool)
    BY <1>1, <1>2
  <1>9. ~FromPool(q[1], pool) => rest = Queued(pool)
    BY Zenon, <1>2
  <1> QED BY Zenon, <1>6, <1>7, <1>8, <1>9, FS_RemoveElement

\* Steps that neither take, store, fetch nor return a message of a pool.
PoolsStay ==
  /\ q' = q /\ free' = free
  /\ \A u \in THREADS : \A pool \in POOLS : u \in Carried(pool)' <=> u \in Carried(pool)

\* Steps that leave the pools alone keep them accounted for.
LEMMA PoolsStayStep == ASSUME PoolInv, PoolsStay PROVE PoolsAccounted'
  <1>1. \A pool \in POOLS : Queued(pool)' = Queued(pool) /\ Carried(pool)' = Carried(pool)
    BY Zenon DEF PoolsStay, Queued, Carried, FromPool
  <1>2. \A pool \in POOLS : free[pool] + Cardinality(Queued(pool)) + Cardinality(Carried(pool)) = PoolSize(pool)
    BY Zenon DEF PoolInv, PoolsAccounted, POOLS
  <1>3. \A pool \in POOLS : free'[pool] + Cardinality(Queued(pool)') + Cardinality(Carried(pool)') = PoolSize(pool)
    BY Zenon, <1>1, <1>2 DEF PoolsStay
  <1> QED BY Zenon, <1>3 DEF PoolsAccounted, POOLS, PoolSize

\* A thread that moves on keeps its message, unless it leaves "posted", where the message
\* is counted in the ring.
LEMMA MoveStays ==
    ASSUME PoolInv, NEW t \in THREADS, NEW pc \in CallerPc \cup TcpipPc, Goto(t, pc), q' = q, free' = free,
           pc # "posted", thr[t].pc = "posted" => ~Pooled(thr[t].msg.type)
    PROVE  PoolsStay
  <1>1. /\ thr'[t].pc = pc /\ \A u \in THREADS \ {t} : thr'[u] = thr[u]
        /\ \A u \in THREADS : thr'[u].msg = thr[u].msg
    BY Zenon, GotoFacts DEF PoolInv, CallInv, TcpipTypeOK
  <1> QED BY Zenon, <1>1 DEF PoolsStay, Carried, FromPool

\* A thread that returns without a message of a pool, or from "posted".
LEMMA ReturnStays ==
    ASSUME PoolInv, NEW t \in THREADS, Return(t), q' = q, free' = free,
           thr[t].pc # "posted" => ~Pooled(thr[t].msg.type)
    PROVE  PoolsStay
  <1>1. thr'[t].msg = EMPTY /\ \A u \in THREADS \ {t} : thr'[u] = thr[u]
    BY Zenon, ReturnFacts DEF PoolInv, CallInv, TcpipTypeOK
  <1>2. ~Pooled(EMPTY.type)
    BY Zenon DEF EMPTY, NONE, Pooled
  <1> QED BY Zenon, <1>1, <1>2 DEF PoolsStay, Carried, FromPool

\* What PoolsAccounted says of the next state, pool by pool.
LEMMA PoolsNext ==
    ASSUME \A pool \in POOLS : free'[pool] + Cardinality(Queued(pool)') + Cardinality(Carried(pool)') = PoolSize(pool)
    PROVE  PoolsAccounted'
  BY Zenon DEF PoolsAccounted, POOLS, PoolSize

\* A message leaves its pool, into a caller's hands.
LEMMA TakePool ==
    ASSUME PoolInv, NEW t \in CALLERS, NEW op \in {"callback", "try_callback", "inpkt"}, Take(t, op)
    PROVE  PoolsAccounted'
  <1> USE Threads DEF PoolInv, CallInv
  <1> DEFINE m == [type |-> op, from |-> t]
  <1>1. /\ thr'[t].pc = "lock" /\ thr'[t].msg = m /\ thr[t].msg = EMPTY /\ q' = q
        /\ \A u \in THREADS \ {t} : thr'[u].msg = thr[u].msg /\ thr'[u].pc = thr[u].pc
    BY Zenon DEF Take, TcpipTypeOK, MessagesCarried, MessagesNamed
  <1>2. PoolOf(op) \in POOLS /\ free' = [free EXCEPT ![PoolOf(op)] = @ - 1]
    BY Zenon DEF Take, PoolOf, POOLS
  <1>3. \A pool : FromPool(m, pool) <=> pool = PoolOf(op)
    BY Zenon DEF FromPool, Pooled
  <1>4. \A pool : ~FromPool(EMPTY, pool)
    BY Zenon DEF FromPool, EMPTY, NONE, Pooled
  <1> HIDE DEF m
  <1>5. \A pool \in POOLS : t \notin Carried(pool) /\ (t \in Carried(pool)' <=> pool = PoolOf(op)) /\ Queued(pool)' = Queued(pool)
    BY Zenon, <1>1, <1>3, <1>4 DEF Carried, Queued, FromPool
  <1>6. ASSUME NEW pool \in POOLS
        PROVE  free'[pool] + Cardinality(Queued(pool)') + Cardinality(Carried(pool)') = PoolSize(pool)
    <2>1. free[pool] \in Int /\ free[pool] + Cardinality(Queued(pool)) + Cardinality(Carried(pool)) = PoolSize(pool)
      BY Zenon DEF PoolsAccounted, POOLS
    <2>2. Cardinality(Queued(pool)) \in Nat /\ Cardinality(Carried(pool)) \in Nat
      BY Zenon, PoolsFinite
    <2>3. CASE pool = PoolOf(op)
      <3>1. free'[pool] = free[pool] - 1
        BY Zenon, <1>2, <2>3
      <3>2. Cardinality(Carried(pool)') = Cardinality(Carried(pool)) + 1
        BY Zenon, <1>1, <1>5, <2>3, CarriedChange
      <3> QED BY <1>5, <2>1, <2>2, <3>1, <3>2
    <2>4. CASE pool # PoolOf(op)
      <3>1. free'[pool] = free[pool]
        BY Zenon, <1>2, <2>4
      <3>2. Carried(pool)' = Carried(pool)
        BY Zenon, <1>1, <1>5, <2>4, CarriedChange
      <3> QED BY Zenon, <1>5, <2>1, <2>2, <3>1, <3>2
    <2> QED BY Zenon, <2>3, <2>4
  <1> QED BY Zenon, <1>6, PoolsNext

\* A message goes from the caller's hands into the ring.
LEMMA StorePool ==
    ASSUME PoolInv, NEW t \in CALLERS, thr[t].pc = "posting", StoreIn(thr[t].msg), Goto(t, "posted"), free' = free
    PROVE  PoolsAccounted'
  <1> USE Threads DEF PoolInv, CallInv
  <1> DEFINE m == thr[t].msg
  <1>1. /\ thr'[t].pc = "posted"
        /\ \A u \in THREADS \ {t} : thr'[u].msg = thr[u].msg /\ thr'[u].pc = thr[u].pc
    BY GotoFacts DEF TcpipTypeOK, CallerPc
  <1>2. m \in MSGS /\ q' = Append(q, m)
    BY Zenon DEF StoreIn, TcpipTypeOK, THR
  <1>3. \A pool \in POOLS : t \notin Carried(pool)' /\ (t \in Carried(pool) <=> FromPool(m, pool))
    BY Zenon, <1>1 DEF Carried
  <1> HIDE DEF m
  <1>4. ASSUME NEW pool \in POOLS
        PROVE  free'[pool] + Cardinality(Queued(pool)') + Cardinality(Carried(pool)') = PoolSize(pool)
    <2>1. free[pool] \in Int /\ free[pool] + Cardinality(Queued(pool)) + Cardinality(Carried(pool)) = PoolSize(pool)
      BY Zenon DEF PoolsAccounted, POOLS
    <2>2. Cardinality(Queued(pool)) \in Nat /\ Cardinality(Carried(pool)) \in Nat
      BY Zenon, PoolsFinite
    <2>3. CASE FromPool(m, pool)
      <3>1. Cardinality(Carried(pool)') = Cardinality(Carried(pool)) - 1
        BY Zenon, <1>1, <1>3, <2>3, CarriedChange
      <3>2. Cardinality(Queued(pool)') = Cardinality(Queued(pool)) + 1
        BY Zenon, <1>2, <2>3, QueuedAppend
      <3> QED BY <2>1, <2>2, <3>1, <3>2
    <2>4. CASE ~FromPool(m, pool)
      <3>1. Carried(pool)' = Carried(pool)
        BY Zenon, <1>1, <1>3, <2>4, CarriedChange
      <3>2. Queued(pool)' = Queued(pool)
        BY Zenon, <1>2, <2>4, QueuedAppend
      <3> QED BY Zenon, <2>1, <2>2, <3>1, <3>2
    <2> QED BY Zenon, <2>3, <2>4
  <1> QED BY Zenon, <1>4, PoolsNext

\* A message goes from the ring into the tcpip thread's hands.
LEMMA FetchPool ==
    ASSUME PoolInv, sys_arch_mbox_fetch, q # << >>
    PROVE  PoolsAccounted'
  <1> USE Threads DEF PoolInv, CallInv
  <1>1. /\ thr'[TCPIP].pc = "fetched" /\ thr'[TCPIP].msg = q[1] /\ thr[TCPIP].msg = EMPTY
        /\ \A u \in THREADS \ {TCPIP} : thr'[u].msg = thr[u].msg /\ thr'[u].pc = thr[u].pc
    BY DEF sys_arch_mbox_fetch, TcpipTypeOK, THR, MessagesCarried, EmptyHanded
  <1>2. q' = Tail(q) /\ free' = free
    BY Zenon DEF sys_arch_mbox_fetch
  <1>3. \A pool : ~FromPool(EMPTY, pool)
    BY Zenon DEF FromPool, EMPTY, NONE, Pooled
  <1>4. \A pool \in POOLS : TCPIP \notin Carried(pool) /\ (TCPIP \in Carried(pool)' <=> FromPool(q[1], pool))
    BY Zenon, <1>1, <1>3 DEF Carried, FromPool
  <1>5. ASSUME NEW pool \in POOLS
        PROVE  free'[pool] + Cardinality(Queued(pool)') + Cardinality(Carried(pool)') = PoolSize(pool)
    <2>1. free[pool] \in Int /\ free[pool] + Cardinality(Queued(pool)) + Cardinality(Carried(pool)) = PoolSize(pool)
      BY Zenon DEF PoolsAccounted, POOLS
    <2>2. Cardinality(Queued(pool)) \in Nat /\ Cardinality(Carried(pool)) \in Nat
      BY Zenon, PoolsFinite
    <2>3. CASE FromPool(q[1], pool)
      <3>1. Cardinality(Carried(pool)') = Cardinality(Carried(pool)) + 1
        BY Zenon, <1>1, <1>4, <2>3, CarriedChange
      <3>2. Cardinality(Queued(pool)') = Cardinality(Queued(pool)) - 1
        BY Zenon, <1>2, <2>3, QueuedTail
      <3> QED BY <1>2, <2>1, <2>2, <3>1, <3>2
    <2>4. CASE ~FromPool(q[1], pool)
      <3>1. Carried(pool)' = Carried(pool)
        BY Zenon, <1>1, <1>4, <2>4, CarriedChange
      <3>2. Cardinality(Queued(pool)') = Cardinality(Queued(pool))
        BY Zenon, <1>2, <2>4, QueuedTail
      <3> QED BY Zenon, <1>2, <2>1, <2>2, <3>1, <3>2
    <2> QED BY Zenon, <2>3, <2>4
  <1> QED BY Zenon, <1>5, PoolsNext

\* A thread gives the message in its hands, if it is one of a pool, back to the pool.
LEMMA GiveBackPool ==
    ASSUME PoolInv, NEW t \in THREADS, thr[t].pc # "posted", thr'[t].msg = EMPTY, q' = q,
           \A u \in THREADS \ {t} : thr'[u].msg = thr[u].msg /\ thr'[u].pc = thr[u].pc,
           LET m == thr[t].msg
           IN  free' = IF Pooled(m.type) THEN [free EXCEPT ![PoolOf(m.type)] = @ + 1] ELSE free
    PROVE  PoolsAccounted'
  <1> USE Threads DEF PoolInv, CallInv
  <1> DEFINE m == thr[t].msg
  <1>1. \A pool : ~FromPool(EMPTY, pool)
    BY Zenon DEF FromPool, EMPTY, NONE, Pooled
  <1>2. \A pool \in POOLS : t \notin Carried(pool)' /\ (t \in Carried(pool) <=> FromPool(m, pool)) /\ Queued(pool)' = Queued(pool)
    BY Zenon, <1>1 DEF Carried, Queued, FromPool
  <1>3. /\ PoolOf(m.type) \in POOLS
        /\ free' = IF Pooled(m.type) THEN [free EXCEPT ![PoolOf(m.type)] = @ + 1] ELSE free
    BY Zenon DEF PoolOf, POOLS
  <1> HIDE DEF m
  <1>4. ASSUME NEW pool \in POOLS
        PROVE  free'[pool] + Cardinality(Queued(pool)') + Cardinality(Carried(pool)') = PoolSize(pool)
    <2>1. free[pool] \in Int /\ free[pool] + Cardinality(Queued(pool)) + Cardinality(Carried(pool)) = PoolSize(pool)
      BY Zenon DEF PoolsAccounted, POOLS
    <2>2. Cardinality(Queued(pool)) \in Nat /\ Cardinality(Carried(pool)) \in Nat
      BY Zenon, PoolsFinite
    <2>3. CASE FromPool(m, pool)
      <3>1. free'[pool] = free[pool] + 1
        BY Zenon, <1>3, <2>3 DEF FromPool
      <3>2. Cardinality(Carried(pool)') = Cardinality(Carried(pool)) - 1
        BY Zenon, <1>2, <2>3, CarriedChange
      <3> QED BY <1>2, <2>1, <2>2, <3>1, <3>2
    <2>4. CASE ~FromPool(m, pool)
      <3>1. free'[pool] = free[pool]
        BY Zenon, <1>3, <2>4 DEF FromPool
      <3>2. Carried(pool)' = Carried(pool)
        BY Zenon, <1>2, <2>4, CarriedChange
      <3> QED BY Zenon, <1>2, <2>1, <2>2, <3>1, <3>2
    <2> QED BY Zenon, <2>3, <2>4
  <1> QED BY Zenon, <1>4, PoolsNext

\* Every step keeps the pools accounted for.
LEMMA PoolStep == ASSUME PoolInv, TcpipNext PROVE PoolInv'
  <1>0. CallInv /\ CallInv' /\ TcpipTypeOK /\ MessagesCarried
    BY Zenon, CallStep DEF PoolInv, CallInv
  <1>1. free' \in [POOLS -> Int]
    <2>1. \A op \in {"callback", "try_callback", "inpkt"} : \A t : Take(t, op) => free' \in [POOLS -> Int]
      BY DEF Take, PoolInv, PoolOf, POOLS
    <2>2. \A t : sys_mbox_trypost(t) => free' \in [POOLS -> Int]
      BY DEF sys_mbox_trypost, PoolInv, PoolOf, POOLS
    <2>3. tcpip_thread_handle_msg => free' \in [POOLS -> Int]
      BY DEF tcpip_thread_handle_msg, PoolInv, PoolOf, POOLS
    <2>4. free' = free => free' \in [POOLS -> Int]
      BY Zenon DEF PoolInv
    <2> QED BY Zenon, <2>1, <2>2, <2>3, <2>4
        DEF TcpipNext, ThreadStep, tcpip_callback, tcpip_timeout, tcpip_untimeout, tcpip_try_callback,
            tcpip_inpkt, tcpip_api_call, tcpip_send_msg_wait_sem, tcpip_callback_wait, Call, LockMbox, UnlockMbox,
            sys_mbox_post, AwaitRoom, AwaitAnswer, sys_lock_tcpip_core, sys_unlock_tcpip_core, RunFunction,
            sys_arch_mbox_fetch, cond_wait, tcpip_mbox_fetch
  <1> USE Threads, <1>0
  <1>2. \A t \in CALLERS : thr[t].pc # "idle" => thr[t].msg.type = thr[t].op
    BY Zenon, CarriedNames
  <1>3. ~Pooled("call") /\ ~Pooled(EMPTY.type)
    BY Zenon DEF Pooled, EMPTY, NONE
  <1>4. ASSUME NEW t \in CALLERS, Call(t) PROVE PoolsAccounted'
    <2> DEFINE m == [type |-> "call", from |-> t]
    <2>1. /\ thr'[t].msg = m /\ thr[t].msg = EMPTY /\ q' = q /\ free' = free
          /\ \A u \in THREADS \ {t} : thr'[u] = thr[u]
      BY Zenon, <1>4 DEF Call, TcpipTypeOK, MessagesCarried, MessagesNamed
    <2>2. \A pool : ~FromPool(m, pool) /\ ~FromPool(EMPTY, pool)
      BY Zenon, <1>3 DEF FromPool
    <2>3. PoolsStay
      BY Zenon, <2>1, <2>2 DEF PoolsStay, Carried, FromPool
    <2> QED BY Zenon, <2>3, PoolsStayStep
  <1>5. ASSUME NEW t \in THREADS, LockMbox(t) PROVE PoolsAccounted'
    <2> DEFINE pc == IF thr[t].pc = "fetch" THEN "fetching" ELSE "posting"
    <2>1. thr[t].pc # "posted" /\ Goto(t, pc) /\ q' = q /\ free' = free /\ pc \in CallerPc \cup TcpipPc /\ pc # "posted"
      BY Zenon, <1>5 DEF LockMbox, CallerPc, TcpipPc
    <2> QED BY Zenon, <2>1, MoveStays, PoolsStayStep
  <1>6. ASSUME NEW t \in THREADS, UnlockMbox(t) PROVE PoolsAccounted'
    <2>0. q' = q /\ free' = free /\ thr[t].pc \in {"posted", "fetched", "full"}
      BY Zenon, <1>6 DEF UnlockMbox
    <2>1. CASE thr[t].pc = "posted" /\ Waits(thr[t].op)
      <3>1. t \in CALLERS /\ thr[t].msg.type = "call" /\ Goto(t, "wait_sem")
        BY Zenon, <1>2, <1>6, <2>1 DEF UnlockMbox, Waits, TcpipTypeOK, TcpipPc, THREADS
      <3> QED BY <1>3, <2>0, <3>1, MoveStays, PoolsStayStep DEF CallerPc
    <2>2. CASE thr[t].pc = "posted" /\ ~Waits(thr[t].op)
      <3>1. Return(t)
        BY Zenon, <1>6, <2>2 DEF UnlockMbox
      <3> QED BY Zenon, <2>0, <2>2, <3>1, ReturnStays, PoolsStayStep
    <2>3. CASE thr[t].pc \in {"fetched", "full"}
      <3> DEFINE pc == IF thr[t].pc = "fetched" THEN IF locking THEN "core_lock" ELSE "handle" ELSE "wait_not_full"
      <3>1. Goto(t, pc) /\ pc \in CallerPc \cup TcpipPc /\ pc # "posted"
        BY Zenon, <1>6, <2>3 DEF UnlockMbox, CallerPc, TcpipPc
      <3> QED BY Zenon, <2>0, <2>3, <3>1, MoveStays, PoolsStayStep
    <2> QED BY Zenon, <2>0, <2>1, <2>2, <2>3
  <1>7. ASSUME NEW t \in THREADS, sys_mbox_post(t) PROVE PoolsAccounted'
    <2>0. t \in CALLERS /\ thr[t].pc = "posting" /\ free' = free
      BY Zenon, <1>7 DEF sys_mbox_post, TcpipTypeOK, TcpipPc, THREADS
    <2>1. CASE Full
      BY Zenon, <1>7, <2>0, <2>1, MoveStays, PoolsStayStep DEF sys_mbox_post, CallerPc
    <2>2. CASE ~Full
      BY Zenon, <1>7, <2>0, <2>2, StorePool DEF sys_mbox_post
    <2> QED BY Zenon, <2>1, <2>2
  <1>8. ASSUME NEW t \in THREADS, sys_mbox_trypost(t) PROVE PoolsAccounted'
    <2>0. t \in CALLERS /\ thr[t].pc = "posting"
      BY Zenon, <1>8 DEF sys_mbox_trypost, TcpipTypeOK, TcpipPc, THREADS
    <2>1. CASE Full
      <3>1. Return(t) /\ q' = q /\ free' = [free EXCEPT ![PoolOf(thr[t].op)] = @ + 1]
        BY Zenon, <1>8, <2>1 DEF sys_mbox_trypost
      <3>2. Pooled(thr[t].op)
        BY Zenon, <1>8 DEF sys_mbox_trypost, Posts, Pooled
      <3>3. thr'[t].msg = EMPTY /\ \A u \in THREADS \ {t} : thr'[u].msg = thr[u].msg /\ thr'[u].pc = thr[u].pc
        BY Zenon, <3>1, ReturnFacts DEF TcpipTypeOK
      <3> QED BY Zenon, <1>2, <2>0, <3>1, <3>2, <3>3, GiveBackPool
    <2>2. CASE ~Full
      BY Zenon, <1>8, <2>0, <2>2, StorePool DEF sys_mbox_trypost
    <2> QED BY Zenon, <2>1, <2>2
  <1>9. ASSUME NEW t \in THREADS, AwaitRoom(t) \/ RunFunction(t) PROVE PoolsAccounted'
    BY Zenon, <1>9, MoveStays, PoolsStayStep DEF AwaitRoom, RunFunction, CallerPc
  <1>10. ASSUME NEW t \in THREADS, AwaitAnswer(t) PROVE PoolsAccounted'
    <2>1. t \in CALLERS /\ thr[t].pc = "wait_sem" /\ thr[t].msg.type = "call" /\ Return(t) /\ q' = q /\ free' = free
      BY Zenon, <1>2, <1>10 DEF AwaitAnswer, TcpipTypeOK, TcpipPc, THREADS, MessagesCarried, MessagesNamed, WaitersAreCalls
    <2> QED BY Zenon, <1>3, <2>1, ReturnStays, PoolsStayStep
  <1>11. ASSUME NEW t \in THREADS, sys_lock_tcpip_core(t) PROVE PoolsAccounted'
    <2> DEFINE pc == IF thr[t].pc = "core_lock" THEN "core_locked"
                     ELSE IF t # TCPIP THEN "run" ELSE IF thr[t].msg = EMPTY THEN "timeouts" ELSE "handle"
    <2>1. thr[t].pc # "posted" /\ Goto(t, pc) /\ q' = q /\ free' = free
      BY Zenon, <1>11 DEF sys_lock_tcpip_core
    <2>2. pc \in CallerPc \cup TcpipPc /\ pc # "posted"
      BY Zenon DEF CallerPc, TcpipPc
    <2> QED BY Zenon, <2>1, <2>2, MoveStays, PoolsStayStep
  <1>12. ASSUME NEW t \in THREADS, sys_unlock_tcpip_core(t) PROVE PoolsAccounted'
    <2>0. thr[t].pc \in {"core_unlock", "core_unlocking"} /\ q' = q /\ free' = free
      BY Zenon, <1>12 DEF sys_unlock_tcpip_core
    <2>1. CASE thr[t].pc = "core_unlock" \/ t = TCPIP
      BY Zenon, <1>12, <2>0, <2>1, MoveStays, PoolsStayStep DEF sys_unlock_tcpip_core, CallerPc, TcpipPc
    <2>2. CASE thr[t].pc = "core_unlocking" /\ t # TCPIP
      <3>1. t \in CALLERS /\ thr[t].msg.type = "call" /\ Return(t)
        BY Zenon, <1>2, <1>12, <2>2 DEF sys_unlock_tcpip_core, THREADS, MessagesCarried, MessagesNamed, WaitersAreCalls
      <3> QED BY Zenon, <1>3, <2>0, <3>1, ReturnStays, PoolsStayStep
    <2> QED BY Zenon, <2>0, <2>1, <2>2
  <1>13. ASSUME sys_arch_mbox_fetch PROVE PoolsAccounted'
    <2>1. CASE q = << >>
      <3>1. thr[TCPIP].pc = "fetching" /\ Goto(TCPIP, "wait_not_empty") /\ q' = q /\ free' = free
        BY Zenon, <1>13, <2>1 DEF sys_arch_mbox_fetch
      <3> QED BY Zenon, <3>1, MoveStays, PoolsStayStep DEF TcpipPc
    <2>2. CASE q # << >>
      BY Zenon, <1>13, <2>2, FetchPool
    <2> QED BY Zenon, <2>1, <2>2
  <1>14. ASSUME cond_wait PROVE PoolsAccounted'
    <2> DEFINE pc == IF locking THEN "core_lock" ELSE "timeouts"
    <2>1. thr[TCPIP].pc = "wait_not_empty" /\ (Goto(TCPIP, "fetch") \/ Goto(TCPIP, pc)) /\ q' = q /\ free' = free
      BY Zenon, <1>14 DEF cond_wait
    <2>2. pc \in TcpipPc /\ pc # "posted" /\ "fetch" \in TcpipPc
      BY Zenon DEF TcpipPc
    <2> QED BY Zenon, <2>1, <2>2, MoveStays, PoolsStayStep
  <1>15. ASSUME tcpip_mbox_fetch PROVE PoolsAccounted'
    <2> DEFINE pc == IF locking THEN "core_unlock" ELSE "fetch"
    <2>1. thr[TCPIP].pc = "timeouts" /\ Goto(TCPIP, pc) /\ q' = q /\ free' = free /\ pc \in TcpipPc /\ pc # "posted"
      BY Zenon, <1>15 DEF tcpip_mbox_fetch, TcpipPc
    <2> QED BY Zenon, <2>1, MoveStays, PoolsStayStep
  <1>16. ASSUME tcpip_thread_handle_msg PROVE PoolsAccounted'
    <2>1. \A u \in THREADS \ {TCPIP} : thr'[u].msg = thr[u].msg /\ thr'[u].pc = thr[u].pc
      BY Zenon, <1>16, HandleFacts, HandleKeeps DEF THREADS, TcpipTypeOK
    <2>2. thr'[TCPIP].msg = EMPTY /\ thr[TCPIP].pc # "posted" /\ q' = q
      BY Zenon, <1>16, HandleKeeps DEF tcpip_thread_handle_msg
    <2>3. free' = IF Pooled(thr[TCPIP].msg.type) THEN [free EXCEPT ![PoolOf(thr[TCPIP].msg.type)] = @ + 1] ELSE free
      BY Zenon, <1>16 DEF tcpip_thread_handle_msg
    <2> QED BY Zenon, <2>1, <2>2, <2>3, GiveBackPool
  <1>17. PoolsAccounted'
    BY <1>4, <1>5, <1>6, <1>7, <1>8, <1>9, <1>10, <1>11, <1>12, <1>13, <1>14, <1>15, <1>16, TakePool
       DEF TcpipNext, ThreadStep, tcpip_callback, tcpip_timeout, tcpip_untimeout, tcpip_try_callback,
           tcpip_inpkt, tcpip_api_call, tcpip_send_msg_wait_sem, tcpip_callback_wait
  <1> QED BY Zenon, <1>1, <1>17 DEF PoolInv

\* No message is lost, handled twice or handled after its caller has gone (MessagesAccounted):
\* a pool's messages are free, in a caller's hands, in the ring or being handled, and
\* those of waiting calls are held exactly while the caller waits.
THEOREM MessagesAreAccounted == TcpipSpec => []MessagesAccounted
  <1>1. tcpip_init => PoolInv
    <2> SUFFICES ASSUME tcpip_init PROVE PoolInv
      BY Zenon
    <2>1. CallInv
      BY Zenon, CallInit
    <2>2. q = << >> /\ \A t \in THREADS : thr[t].msg = EMPTY
      BY Zenon DEF tcpip_init
    <2>3. \A pool : Queued(pool) = {} /\ Carried(pool) = {}
      BY <2>2 DEF Queued, Carried, FromPool, Pooled, EMPTY, NONE
    <2>4. /\ free \in [POOLS -> Int]
          /\ \A pool \in POOLS : free[pool] = PoolSize(pool) /\ free[pool] \in Nat
      BY TcpipAssumption DEF tcpip_init, POOLS, PoolSize
    <2>5. PoolsAccounted
      <3>1. ASSUME NEW pool \in POOLS
            PROVE  free[pool] + Cardinality(Queued(pool)) + Cardinality(Carried(pool)) = PoolSize(pool)
        BY <2>3, <2>4, FS_EmptySet
      <3> QED BY Zenon, <3>1 DEF PoolsAccounted, POOLS
    <2> QED BY Zenon, <2>1, <2>4, <2>5 DEF PoolInv
  <1>2. PoolInv /\ [TcpipNext]_tcpipVars => PoolInv'
    <2>1. ASSUME PoolInv, UNCHANGED tcpipVars PROVE PoolInv'
      <3>1. q' = q /\ wait_send' = wait_send /\ sem' = sem /\ locking' = locking /\ thr' = thr /\ free' = free
        BY Zenon, <2>1 DEF tcpipVars
      <3>2. TcpipTypeOK'
        BY <2>1, <3>1 DEF PoolInv, CallInv, TcpipTypeOK
      <3>3. MessagesCarried'
        BY Zenon, <2>1, <3>1 DEF PoolInv, CallInv, MessagesCarried, MessagesNamed, WaitersAreCalls, NewCallsUnsignalled, PostedInTransit, EmptyHanded
      <3>4. Awaiting' = Awaiting /\ \A pool : Queued(pool)' = Queued(pool) /\ Carried(pool)' = Carried(pool)
        BY Zenon, <3>1 DEF Awaiting, Queued, Carried, FromPool
      <3>5. CallsAccounted'
        BY Zenon, <2>1, <3>1, <3>4 DEF PoolInv, CallInv, CallsAccounted
      <3>6. PoolsAccounted'
        BY Zenon, <2>1, <3>1, <3>4 DEF PoolInv, PoolsAccounted
      <3> QED BY Zenon, <2>1, <3>1, <3>2, <3>3, <3>5, <3>6 DEF PoolInv, CallInv
    <2> QED BY Zenon, <2>1, PoolStep
  <1>3. PoolInv => MessagesAccounted
    BY Zenon DEF PoolInv, CallInv, MessagesAccounted
  <1> QED BY <1>1, <1>2, <1>3, PTL DEF TcpipSpec
============================================================================
