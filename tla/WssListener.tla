----------------------------- MODULE WssListener ----------------------------
(***************************************************************************)
(* The WebSocket listener for new heads (wss_listener.go).  One goroutine  *)
(* subscribes, forwards headers to a bounded channel and subscribes again  *)
(* after an error, on the same client, with a back-off in between.  Stop   *)
(* closes stopCh and the client.  Nothing in the program starts a listener *)
(* yet; its reader may stop reading at any time.  The subscription itself  *)
(* (external) may break at any time; the listener learns of it only when   *)
(* it is back in its select, not while a header waits for the reader.      *)
(*                                                                         *)
(* The length of the back-off is left out, so the count of reconnects only *)
(* matters where it is limited.                                            *)
(***************************************************************************)
EXTENDS Integers

CONSTANTS
    NewBlocksCap,   \* capacity of newBlocks (10)
    MaxReconnects   \* maxReconnects, 0 for no limit

ASSUME WssListenerAssumption == NewBlocksCap \in Nat \ {0} /\ MaxReconnects \in Nat

VARIABLES
    listener,       \* "subscribe", "listen", "forward" a header, "lost" or "failed" (the
                    \* two places of the back-off), "ended"
    connected,      \* WSSListener.connected
    reconnects,     \* WSSListener.reconnectCount, up to the limit
    newBlocks,      \* headers in newBlocks
    wssStopped,     \* stopCh and the client are closed
    wssCancelled,   \* the context is done
    alive,          \* the subscription delivers; if not, its error waits on sub.Err()
    subscribed      \* history: a subscription has succeeded

wssVars == <<listener, connected, reconnects, newBlocks, wssStopped, wssCancelled, alive,
             subscribed>>

\* NewWSSListener dials, and takes that for connected.
WssInit ==
    /\ listener = "subscribe"
    /\ connected = TRUE
    /\ reconnects = 0
    /\ newBlocks = 0
    /\ wssStopped = FALSE /\ wssCancelled = FALSE
    /\ alive = FALSE /\ subscribed = FALSE

LimitReached == MaxReconnects > 0 /\ reconnects >= MaxReconnects

GiveUp ==
    /\ listener = "subscribe"
    /\ LimitReached
    /\ listener' = "ended"
    /\ connected' = FALSE
    /\ UNCHANGED <<reconnects, newBlocks, wssStopped, wssCancelled, alive, subscribed>>

\* It fails on a closed client and on a cancelled context; connected is then left alone.
SubscribeNewHead(ok) ==
    /\ listener = "subscribe"
    /\ ~LimitReached
    /\ ok => ~wssStopped /\ ~wssCancelled
    /\ listener' = IF ok THEN "listen" ELSE "failed"
    /\ connected' = (ok \/ connected)
    /\ reconnects' = IF ok THEN 0 ELSE reconnects
    /\ alive' = ok
    /\ subscribed' = (ok \/ subscribed)
    /\ UNCHANGED <<newBlocks, wssStopped, wssCancelled>>

\* External: the connection is lost, in whatever the listener is about.
SubscriptionBreaks ==
    /\ alive
    /\ alive' = FALSE
    /\ UNCHANGED <<listener, connected, reconnects, newBlocks, wssStopped, wssCancelled,
                   subscribed>>

HeaderArrives ==
    /\ listener = "listen" /\ alive
    /\ listener' = "forward"
    /\ UNCHANGED <<connected, reconnects, newBlocks, wssStopped, wssCancelled, alive,
                   subscribed>>

\* The send waits for room or for Stop; neither the context nor the subscription's error
\* ends it.
ForwardHeader ==
    /\ listener = "forward"
    /\ \/ /\ newBlocks < NewBlocksCap
          /\ newBlocks' = newBlocks + 1
          /\ listener' = "listen"
          /\ UNCHANGED alive
       \/ /\ wssStopped
          /\ listener' = "ended"
          /\ alive' = FALSE
          /\ UNCHANGED newBlocks
    /\ UNCHANGED <<connected, reconnects, wssStopped, wssCancelled, subscribed>>

\* Mutant of SubscriptionError: the loss is not recorded.
SubscriptionErrorQuietly ==
    /\ listener = "listen" /\ ~alive
    /\ listener' = "lost"
    /\ UNCHANGED <<connected, reconnects, newBlocks, wssStopped, wssCancelled, alive,
                   subscribed>>

\* The closed client reports an error as well, so a Stop may take this branch.
SubscriptionError ==
    /\ listener = "listen" /\ ~alive
    /\ connected' = FALSE
    /\ listener' = "lost"
    /\ UNCHANGED <<reconnects, newBlocks, wssStopped, wssCancelled, alive, subscribed>>

ListenEnds ==
    /\ listener = "listen"
    /\ wssStopped \/ wssCancelled
    /\ listener' = "ended"
    /\ alive' = FALSE
    /\ UNCHANGED <<connected, reconnects, newBlocks, wssStopped, wssCancelled, subscribed>>

\* The timer of either back-off; neither watches stopCh.
BackoffElapses ==
    /\ listener \in {"lost", "failed"}
    /\ listener' = "subscribe"
    /\ reconnects' = IF reconnects < MaxReconnects THEN reconnects + 1 ELSE reconnects
    /\ UNCHANGED <<connected, newBlocks, wssStopped, wssCancelled, alive, subscribed>>

\* A cancelled context ends the loop from the one back-off, and the wait only from the
\* other (handleReconnect), whose caller subscribes again.
BackoffCancelled ==
    /\ listener \in {"lost", "failed"}
    /\ wssCancelled
    /\ listener' = IF listener = "lost" THEN "ended" ELSE "subscribe"
    /\ UNCHANGED <<connected, reconnects, newBlocks, wssStopped, wssCancelled, alive,
                   subscribed>>

GetNewBlocks ==
    /\ newBlocks > 0
    /\ newBlocks' = newBlocks - 1
    /\ UNCHANGED <<listener, connected, reconnects, wssStopped, wssCancelled, alive, subscribed>>

\* Stop closes the client, and with it the subscription.
StopListener ==
    /\ ~wssStopped
    /\ wssStopped' = TRUE
    /\ alive' = FALSE
    /\ UNCHANGED <<listener, connected, reconnects, newBlocks, wssCancelled, subscribed>>

CancelListener ==
    /\ ~wssCancelled
    /\ wssCancelled' = TRUE
    /\ UNCHANGED <<listener, connected, reconnects, newBlocks, wssStopped, alive, subscribed>>

WssNext ==
    \/ GiveUp \/ SubscriptionBreaks \/ HeaderArrives \/ ForwardHeader \/ SubscriptionError \/ ListenEnds
    \/ \E ok \in BOOLEAN : SubscribeNewHead(ok)
    \/ BackoffElapses \/ BackoffCancelled \/ GetNewBlocks \/ StopListener \/ CancelListener

WssSpec == WssInit /\ [][WssNext]_wssVars

(***************************************************************************)
(* Properties                                                              *)
(***************************************************************************)
WssTypeOK ==
    /\ listener \in {"subscribe", "listen", "forward", "lost", "failed", "ended"}
    /\ connected \in BOOLEAN /\ alive \in BOOLEAN /\ subscribed \in BOOLEAN
    /\ reconnects \in 0..MaxReconnects
    /\ newBlocks \in 0..NewBlocksCap
    /\ wssStopped \in BOOLEAN /\ wssCancelled \in BOOLEAN

\* A live subscription always shows as connected.  A dead one does so only before the first
\* subscription (the dial counts), after an end that was asked for (nothing clears the flag
\* then), and as long as the listener has not read its error: that is until its next
\* select, or, while a header waits for a slow reader, until the reader makes room.  Once
\* read, the loss shows until the next success, however many attempts fail.
ConnectedIsHonest ==
    /\ alive => connected /\ listener \in {"listen", "forward"}
    /\ connected /\ ~alive =>
          \/ ~subscribed
          \/ listener \in {"listen", "forward"}
          \/ listener = "ended" /\ (wssStopped \/ wssCancelled)

=============================================================================
