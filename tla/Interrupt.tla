------------------------------- MODULE Interrupt -------------------------------
(***************************************************************************)
(* Application::run() and Application::interrupt(), and the SIGINT handler *)
(* of src/atmolight/atmolight.cpp that calls the latter.  The main thread  *)
(* waits on a condition variable for m_interrupted; the handler runs on    *)
(* whichever thread the signal is delivered to, which stands still until   *)
(* its handler returns.                                                    *)
(*                                                                         *)
(* main is the main thread's program counter.  This module holds the part  *)
(* from the moment the Application is constructed to its destruction:      *)
(*   install    G_APP = &app and std::signal() are next                    *)
(*   run        about to lock m_mutex                                      *)
(*   test       m_mutex held, about to evaluate the predicate              *)
(*   block      m_mutex held, the predicate was false                      *)
(*   wait       blocked on the condition variable, m_mutex released        *)
(*   wake       woken, about to lock m_mutex again                         *)
(*   unlock     m_mutex held, the predicate was true                       *)
(*   uninstall  run() has returned, G_APP = nullptr is next                *)
(* and the module Application holds what comes before and after.  The      *)
(* inside of pthread_cond_wait is external: interrupted by a handler of    *)
(* its own thread, it behaves as if the handler had run on another one.    *)
(*                                                                         *)
(* G_APP is a plain pointer.  The handler tests it and uses it, and main() *)
(* may store null in between when the handler is on another thread.  That  *)
(* is a data race: the build keeps the tested value in a register, or      *)
(* reads the pointer again and finds null.                                 *)
(***************************************************************************)
EXTENDS Naturals

CONSTANTS
  Analyzer,    (* identities for Analyzer objects and their threads        *)
  MaxSignals   (* bound on the number of signals                           *)

ASSUME InterruptAssumption ==
  /\ {"main", "worker", "none", "null", "uninit"} \cap Analyzer = {}
  /\ MaxSignals \in Nat

Thread == {"main", "worker"} \cup Analyzer

VARIABLES
  main,          (* where the main thread is                               *)
  mutex,         (* the thread that holds m_mutex, or "none"               *)
  interrupted,   (* m_interrupted                                          *)
  gapp,          (* G_APP points to the application                        *)
  handler,       (* each thread's signal handler: none, use, lock, set,    *)
                 (* notify                                                 *)
  signals        (* the number of signals so far                           *)

runVars == <<main, mutex, interrupted, gapp, handler, signals>>

Holding == {"test", "block", "unlock"}

InRun == {"run", "wait", "wake"} \cup Holding

RunInit ==
  /\ mutex = "none"
  /\ interrupted = FALSE
  /\ gapp = FALSE
  /\ handler = [t \in Thread |-> "none"]
  /\ signals = 0

-------------------------------------------------------------------------------
Install ==
  /\ main = "install"
  /\ main' = "run"
  /\ gapp' = TRUE
  /\ UNCHANGED <<mutex, interrupted, handler, signals>>

(* Mutant of Acquire: wait() is called without a predicate, so that any     *)
(* wakeup ends it.                                                          *)
AcquireWithoutPredicate ==
  /\ main \in {"run", "wake"}
  /\ mutex = "none"
  /\ mutex' = "main"
  /\ main' = IF main = "wake" THEN "unlock" ELSE "test"
  /\ UNCHANGED <<interrupted, gapp, handler, signals>>

(* The unique_lock of run(), and the one wait() takes when it wakes up.     *)
Acquire ==
  /\ main \in {"run", "wake"}
  /\ mutex = "none"
  /\ mutex' = "main"
  /\ main' = "test"
  /\ UNCHANGED <<interrupted, gapp, handler, signals>>

Test ==
  /\ main = "test"
  /\ main' = IF interrupted THEN "unlock" ELSE "block"
  /\ UNCHANGED <<mutex, interrupted, gapp, handler, signals>>

(* The condition variable releases the mutex and blocks in one step.        *)
Block ==
  /\ main = "block"
  /\ mutex' = "none"
  /\ main' = "wait"
  /\ UNCHANGED <<interrupted, gapp, handler, signals>>

SpuriousWakeup ==
  /\ main = "wait"
  /\ main' = "wake"
  /\ UNCHANGED <<mutex, interrupted, gapp, handler, signals>>

Return ==
  /\ main = "unlock"
  /\ mutex' = "none"
  /\ main' = "uninstall"
  /\ UNCHANGED <<interrupted, gapp, handler, signals>>

Uninstall ==
  /\ main = "uninstall"
  /\ gapp' = FALSE
  /\ main' = "destroy_analyzer"
  /\ UNCHANGED <<mutex, interrupted, handler, signals>>

RunProgress == Install \/ Acquire \/ Test \/ Block \/ Return \/ Uninstall

-------------------------------------------------------------------------------
(***************************************************************************)
(* A SIGINT is delivered to the running thread t, whose handler tests      *)
(* G_APP and finds it set.  (It does nothing when G_APP is null.)          *)
(***************************************************************************)
Signal(t) ==
  /\ gapp
  /\ signals < MaxSignals
  /\ handler[t] = "none"
  /\ signals' = signals + 1
  /\ handler' = [handler EXCEPT ![t] = "use"]
  /\ UNCHANGED <<main, mutex, interrupted, gapp>>

(* The tested pointer is used: as it was tested, whatever G_APP is now ...  *)
HandlerCalls(t) ==
  /\ handler[t] = "use"
  /\ handler' = [handler EXCEPT ![t] = "lock"]
  /\ UNCHANGED <<main, mutex, interrupted, gapp, signals>>

(* ... or read again after main() has reset it, and dereferenced.           *)
NullPointer(t) == handler[t] = "use" /\ ~ gapp

(* Mutant of HandlerLock: interrupt() sets the flag without the mutex.      *)
HandlerLockForgotten(t) ==
  /\ handler[t] = "lock"
  /\ handler' = [handler EXCEPT ![t] = "set"]
  /\ UNCHANGED <<main, mutex, interrupted, gapp, signals>>

(* A std::mutex is not recursive: when t is the main thread inside run() it *)
(* waits for itself.                                                        *)
HandlerLock(t) ==
  /\ handler[t] = "lock"
  /\ mutex = "none"
  /\ mutex' = t
  /\ handler' = [handler EXCEPT ![t] = "set"]
  /\ UNCHANGED <<main, interrupted, gapp, signals>>

HandlerSet(t) ==
  /\ handler[t] = "set"
  /\ interrupted' = TRUE
  /\ mutex' = "none"
  /\ handler' = [handler EXCEPT ![t] = "notify"]
  /\ UNCHANGED <<main, gapp, signals>>

HandlerNotify(t) ==
  /\ handler[t] = "notify"
  /\ main' = IF main = "wait" THEN "wake" ELSE main
  /\ handler' = [handler EXCEPT ![t] = "none"]
  /\ UNCHANGED <<mutex, interrupted, gapp, signals>>

HandlerProgress(t) ==
  HandlerCalls(t) \/ HandlerLock(t) \/ HandlerSet(t) \/ HandlerNotify(t)

(* The handler interrupted its own thread inside run()'s critical section   *)
(* and now waits for the mutex that thread holds.                           *)
SelfDeadlock == handler["main"] = "lock" /\ mutex = "main"

===============================================================================
