------------------------------- MODULE Delivery -------------------------------
(***************************************************************************)
(* The two ways in which a publication reaches people: posts to Discord    *)
(* and entries in inboxes.  They share nothing.  The posts are this        *)
(* module's own, the inboxes are named.                                    *)
(***************************************************************************)
EXTENDS Announcements

CONSTANTS Accounts, Works, Creator, NoOne, NoWork, Passes, Batch, Retention, MaxEvents, MaxChoices

VARIABLES
    events,   \* every event recorded so far
    hiddenWorks,
    queue, taken, inbox, follow, installed, fans, age, choices

Notify == INSTANCE Inbox WITH recorded <- events, hidden <- hiddenWorks

DeliverySettings == Settings /\ Notify!Settings

ToldOnce == Notify!ToldOnce
===============================================================================
