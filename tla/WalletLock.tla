------------------------------ MODULE WalletLock ------------------------------
(***************************************************************************)
(* Who unlocks the wallet, and who locks it again: walletpassphrase and    *)
(* walletlock, the thread that relocks after the timeout, the thread that  *)
(* fills the key pool while the wallet is unlocked, walletpassphrasechange *)
(* and the graphical interface.  RPC commands hold cs_wallet and follow    *)
(* one upon the other; the relocking threads do not take it, so their      *)
(* steps fall anywhere.  A time is kept as what is left until it.          *)
(***************************************************************************)
EXTENDS Integers, FiniteSets, FiniteSetsExt

CONSTANTS
    Timer,          \* runs of ThreadCleanWalletPassphrase, one for each walletpassphrase
    MaxTimeout,     \* timeouts are 0 .. MaxTimeout, 0 for those below it also
    PoolGap,        \* keys the pool is short of
    Unset           \* nWalletUnlockTime is 0

ASSUME WalletLockAssumption ==
    /\ IsFiniteSet(Timer) /\ MaxTimeout \in Nat \ {0} /\ PoolGap \in Nat
    /\ Unset \notin 0 .. MaxTimeout

VARIABLES
    wkLocked,           \* IsLocked()
    nWalletUnlockTime,  \* what is left until it, or Unset
    timers,             \* [Timer -> what the thread does, and the time it has]
    filling,            \* keys ThreadTopUpKeyPool still makes; it holds cs_wallet
    fillers,            \* such threads that have not begun
    alive,              \* the process
    promised,           \* what is left of the timeout of the last walletpassphrase
    byTimer,            \* that one unlocked the wallet, nobody has locked it since
    leftSet             \* somebody has locked the wallet and left a time, or a thread that will set one

lockVars == <<wkLocked, nWalletUnlockTime, timers, filling, fillers, alive, promised, byTimer, leftSet>>

NotStarted == [pc |-> "new", left |-> 0]

WalletLockInit ==
    /\ wkLocked = TRUE /\ nWalletUnlockTime = Unset
    /\ timers = [t \in Timer |-> NotStarted]
    /\ filling = 0 /\ fillers = 0 /\ alive = TRUE
    /\ promised = 0 /\ byTimer = FALSE /\ leftSet = FALSE

WalletIsFree == alive /\ filling = 0

\* A thread will set the time, whatever has become of the wallet by then.
Starting == \E t \in Timer : timers[t].pc = "start"

-----------------------------------------------------------------------------
(* Commands. *)

\* Altered: the relocking thread is only started when there is none.
Started_Once(t, n) ==
    [timers EXCEPT ![t] = [pc |-> IF \E u \in Timer : timers[u].pc = "sleep" THEN "end" ELSE "start",
                           left |-> n]]

Started(t, n) == [timers EXCEPT ![t] = [pc |-> "start", left |-> n]]

\* It refuses while the wallet is unlocked, and makes a thread that fills the pool.
Unlocks(t) ==
    /\ WalletIsFree /\ wkLocked
    /\ timers[t] = NotStarted
    /\ wkLocked' = FALSE
    /\ fillers' = fillers + 1

walletpassphrase(t, n) ==
    /\ Unlocks(t)
    /\ timers' = Started(t, n)
    /\ promised' = n /\ byTimer' = TRUE
    /\ UNCHANGED <<nWalletUnlockTime, filling, alive, leftSet>>

\* The timeout is no integer: get_int64 throws after all that, and nobody will lock the wallet again.
PassphraseThrows(t) ==
    /\ Unlocks(t)
    /\ timers' = [timers EXCEPT ![t] = [pc |-> "end", left |-> 0]]
    /\ UNCHANGED <<nWalletUnlockTime, filling, alive, promised, byTimer, leftSet>>

walletlock ==
    /\ WalletIsFree
    /\ wkLocked' = TRUE /\ nWalletUnlockTime' = Unset
    /\ byTimer' = FALSE /\ leftSet' = Starting
    /\ UNCHANGED <<timers, filling, fillers, alive, promised>>

\* What locks the wallet and leaves the time as it is: walletpassphrasechange with
\* a wrong passphrase (it locks first, and returns), setWalletLocked(true).
LocksOnly ==
    /\ alive /\ ~wkLocked
    /\ wkLocked' = TRUE
    /\ byTimer' = FALSE
    /\ leftSet' = (leftSet \/ nWalletUnlockTime # Unset \/ Starting)
    /\ UNCHANGED <<nWalletUnlockTime, timers, filling, fillers, alive, promised>>

\* A walletpassphrasechange that succeeds leaves the wallet as it found it; the
\* interface unlocks without a timeout.
GuiUnlock ==
    /\ WalletIsFree /\ wkLocked
    /\ wkLocked' = FALSE
    /\ UNCHANGED <<nWalletUnlockTime, timers, filling, fillers, alive, promised, byTimer, leftSet>>

-----------------------------------------------------------------------------
(* ThreadCleanWalletPassphrase: each section under cs_nWalletUnlockTime. *)

\* Altered: a shorter time replaces a longer one.
Extended_Any(old, mine) == mine
Extended(old, mine) == Max({old, mine})

\* The thread is done: it locks the wallet if a time is set.
TimerEnds(t, isSet) ==
    /\ timers' = [timers EXCEPT ![t] = [pc |-> "end", left |-> 0]]
    /\ nWalletUnlockTime' = Unset
    /\ wkLocked' = (wkLocked \/ isSet)
    /\ byTimer' = (byTimer /\ ~wkLocked')
    /\ leftSet' = (leftSet /\ Starting')

\* It sets the time and stays, unless there is nothing to wait for, or prolongs the time of
\* the one that is waiting.
TimerStarts(t) ==
    /\ alive /\ timers[t].pc = "start"
    /\ \/ /\ nWalletUnlockTime = Unset /\ timers[t].left > 0
          /\ nWalletUnlockTime' = timers[t].left
          /\ timers' = [timers EXCEPT ![t].pc = "sleep"]
          /\ UNCHANGED <<wkLocked, byTimer, leftSet>>
       \/ nWalletUnlockTime = Unset /\ timers[t].left = 0 /\ TimerEnds(t, TRUE)
       \/ /\ nWalletUnlockTime # Unset
          /\ nWalletUnlockTime' = Extended(nWalletUnlockTime, timers[t].left)
          /\ timers' = [timers EXCEPT ![t] = [pc |-> "end", left |-> 0]]
          /\ UNCHANGED <<wkLocked, byTimer, leftSet>>
    /\ UNCHANGED <<filling, fillers, alive, promised>>

\* Altered: it does not look whether the time was prolonged.
Sleeps_Once(t) == FALSE

\* On waking, there is time left.
Sleeps(t) == nWalletUnlockTime # Unset /\ nWalletUnlockTime > 0

TimerWakes(t) ==
    /\ alive
    /\ timers[t].pc = "sleep" /\ timers[t].left = 0
    /\ IF Sleeps(t)
       THEN /\ timers' = [timers EXCEPT ![t].left = nWalletUnlockTime]
            /\ UNCHANGED <<wkLocked, nWalletUnlockTime, byTimer, leftSet>>
       ELSE TimerEnds(t, nWalletUnlockTime # Unset)
    /\ UNCHANGED <<filling, fillers, alive, promised>>

Less(n) == IF n \in Nat \ {0} THEN n - 1 ELSE n

\* Time passes, in units in which a thread that was made has begun and one whose time
\* has come has woken.
Tick ==
    /\ alive /\ ~Starting
    /\ \A t \in Timer : timers[t].pc = "sleep" => timers[t].left > 0
    /\ \E t \in Timer : timers[t].pc = "sleep"
    /\ timers' = [t \in Timer |-> IF timers[t].pc = "sleep"
                                  THEN [timers[t] EXCEPT !.left = Less(@)] ELSE timers[t]]
    /\ nWalletUnlockTime' = IF nWalletUnlockTime = Unset THEN Unset ELSE Less(nWalletUnlockTime)
    /\ promised' = Less(promised)
    /\ UNCHANGED <<wkLocked, filling, fillers, alive, byTimer, leftSet>>

-----------------------------------------------------------------------------
(* ThreadTopUpKeyPool. *)
TopUpBegins ==
    /\ WalletIsFree /\ fillers > 0
    /\ fillers' = fillers - 1
    /\ filling' = IF wkLocked THEN 0 ELSE PoolGap
    /\ UNCHANGED <<wkLocked, nWalletUnlockTime, timers, alive, promised, byTimer, leftSet>>

\* GenerateNewKey; when the wallet has been relocked AddKey fails, and the exception
\* leaves the thread, which ends the process.
TopUpAdds ==
    /\ alive /\ filling > 0
    /\ alive' = ~wkLocked
    /\ filling' = filling - 1
    /\ UNCHANGED <<wkLocked, nWalletUnlockTime, timers, fillers, promised, byTimer, leftSet>>

WalletLockNext ==
    \/ \E t \in Timer, n \in 0 .. MaxTimeout : walletpassphrase(t, n)
    \/ \E t \in Timer : PassphraseThrows(t)
    \/ walletlock \/ LocksOnly \/ GuiUnlock
    \/ \E t \in Timer : TimerStarts(t) \/ TimerWakes(t)
    \/ Tick \/ TopUpBegins \/ TopUpAdds

TimersRun ==
    /\ \A t \in Timer : WF_lockVars(TimerStarts(t)) /\ WF_lockVars(TimerWakes(t))
    /\ WF_lockVars(Tick)
    /\ WF_lockVars(TopUpBegins) /\ WF_lockVars(TopUpAdds)

WalletLockSpec == WalletLockInit /\ [][WalletLockNext]_lockVars

-----------------------------------------------------------------------------
(* Properties. *)

Pending(t) == timers[t].pc \in {"start", "sleep"}

\* Types; and a time that is set has a thread that waits for it, which wakes no later.
WalletLockTypeOK ==
    /\ wkLocked \in BOOLEAN /\ alive \in BOOLEAN /\ byTimer \in BOOLEAN /\ leftSet \in BOOLEAN
    /\ promised \in 0 .. MaxTimeout /\ filling \in 0 .. PoolGap /\ fillers \in 0 .. Cardinality(Timer)
    /\ nWalletUnlockTime \in 0 .. MaxTimeout \cup {Unset}
    /\ \A t \in Timer : timers[t].left \in 0 .. MaxTimeout
    /\ nWalletUnlockTime # Unset =>
         \E t \in Timer : timers[t].pc = "sleep" /\ timers[t].left <= nWalletUnlockTime

\* "Stores the wallet decryption key in memory for <timeout> seconds": the relocking
\* threads do not take it away earlier.  Excepted is a time that was left by who
\* locked the wallet before: the thread that waits for it locks the wallet again.
KeptForTheTimeout ==
    [][\A t \in Timer :
           (TimerStarts(t) \/ TimerWakes(t)) /\ wkLocked' /\ ~wkLocked /\ byTimer /\ ~leftSet => promised = 0]_lockVars

\* Both: walletpassphrase unlocks for as long as it says, and whenever there is a time to
\* lock the wallet there is a thread that will.
UnlockIsTimed == []WalletLockTypeOK /\ KeptForTheTimeout

\* And no longer: what walletpassphrase unlocked is locked again, by a thread that
\* was started for it or by one that waited already.
Relocks == byTimer ~> (wkLocked \/ ~alive)

=============================================================================
