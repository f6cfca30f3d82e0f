------------------------------ MODULE Tickets ------------------------------
(***************************************************************************)
(* The conversation of a ticket: the page of the employee who wrote it,    *)
(* assets/js/tickets.js, the page of the staff, assets/js/tickets_admin.js,*)
(* and services/ticket_service.py.  One of the two pages is modelled in    *)
(* full, and what the others do comes as requests.                         *)
(*                                                                         *)
(* A request reads the row of the ticket and checks its status when it is  *)
(* sent, and commits later only what it has changed against the row it     *)
(* read.  A GET is answered when it is sent and drawn any time later.      *)
(* Messages are left out but for the status they set.                      *)
(***************************************************************************)
EXTENDS Naturals, FiniteSets

CONSTANTS TicketIds, NoTicket,
          MaxTicketCalls   \* bound: requests in flight and answers to draw

ASSUME TicketsAssumption == NoTicket \notin TicketIds /\ MaxTicketCalls \in Nat

VARIABLES tickets,  \* the rows: status, closed_at is set, satisfaction_rating is set
          desk,     \* the dialog of the page
          drawing,  \* the statuses of the answers renderDetail will draw
          calls     \* the POSTs in flight

ticketVars == <<tickets, desk, drawing, calls>>

Sides == {"creator", "staff"}
TicketStatuses == {"open", "answered", "closed"}
TicketRow == [status : TicketStatuses, closed : BOOLEAN, rated : BOOLEAN]
NewTicket == [status |-> "open", closed |-> FALSE, rated |-> FALSE]

(* side tells which of the two pages it is; current is                     *)
(* state.currentTicketId; status is the one drawn last, which the buttons  *)
(* follow; stars: the rating picker is open; busy: a reply is being sent.  *)
ClosedDialog(side) == [side |-> side, visible |-> FALSE, current |-> NoTicket,
                       status |-> "none", stars |-> FALSE, busy |-> FALSE]

Kinds == {"reply", "close", "reopen"}
CallSlots == 1..MaxTicketCalls
FreeCalls == CallSlots \ {c.id : c \in calls}

----------------------------------------------------------------------------
(* ticket_service.py                                                       *)

(* What a request does to the row it has read, refused by its status.      *)
Refused(kind, row) == IF kind = "reopen" THEN row.status # "closed" ELSE row.status = "closed"

Changed(c) ==
    CASE c.kind = "reply"  -> IF c.by = "staff" /\ c.row.status = "open"
                              THEN [c.row EXCEPT !.status = "answered"] ELSE c.row
      [] c.kind = "close"  -> [c.row EXCEPT !.status = "closed", !.closed = TRUE,
                                            !.rated = @ \/ c.by = "creator"]
      [] c.kind = "reopen" -> NewTicket

(* A close that keeps the time of closing it has read.                     *)
WrittenOnce(row, c) ==
    LET new == Changed(c) IN
    [status |-> IF new.status = c.row.status THEN row.status ELSE new.status,
     closed |-> IF new.closed = c.row.closed THEN row.closed ELSE new.closed,
     rated  |-> IF new.rated = c.row.rated THEN row.rated ELSE new.rated]

(* A close has a time, and a rating by the creator, unlike those before.   *)
Written(row, c) ==
    LET new == Changed(c)
        rates == c.kind = "close" /\ c.by = "creator" IN
    [status |-> IF new.status = c.row.status THEN row.status ELSE new.status,
     closed |-> IF new.closed = c.row.closed /\ c.kind # "close" THEN row.closed ELSE new.closed,
     rated  |-> IF new.rated = c.row.rated /\ ~ rates THEN row.rated ELSE new.rated]

(* Only the page waits for an answer.                                      *)
CommitTicket(c) ==
    /\ c \in calls /\ c.st = "read"
    /\ tickets' = [tickets EXCEPT ![c.ticket] = Written(@, c)]
    /\ calls' = (calls \ {c}) \cup IF c.here THEN {[c EXCEPT !.st = "ok", !.row = NewTicket]}
                                   ELSE {}
    /\ UNCHANGED <<desk, drawing>>

----------------------------------------------------------------------------
(* tickets.js and tickets_admin.js                                         *)

MayAsk == Cardinality(calls) + Cardinality(drawing) < MaxTicketCalls

(* The next dialog sets state.currentTicketId and hides the picker anew.   *)
Hidden(d, under) == [d EXCEPT !.visible = FALSE, !.stars = FALSE,
                              !.current = IF \E c \in under : c.here THEN @ ELSE NoTicket]

(* openDetail.  The buttons stay as the last thread drawn left them.       *)
OpenTicket(t) ==
    /\ ~ desk.visible /\ MayAsk
    /\ desk' = [desk EXCEPT !.visible = TRUE, !.current = t, !.stars = FALSE]
    /\ drawing' = drawing \cup {tickets[t].status}
    /\ UNCHANGED <<tickets, calls>>

(* Without the answer the dialog closes, whichever ticket it shows.        *)
OpenFails(st) ==
    /\ st \in drawing
    /\ drawing' = drawing \ {st}
    /\ desk' = Hidden(desk, calls)
    /\ UNCHANGED <<tickets, calls>>

(* renderDetail                                                            *)
RenderDetail(st) ==
    /\ st \in drawing
    /\ drawing' = drawing \ {st}
    /\ desk' = [desk EXCEPT !.status = st, !.stars = FALSE]
    /\ UNCHANGED <<tickets, calls>>

CloseTicketDialog ==
    /\ desk.visible
    /\ desk' = Hidden(desk, calls)
    /\ UNCHANGED <<tickets, drawing, calls>>

Send(here, by, kind, t) ==
    /\ MayAsk
    /\ \E n \in FreeCalls :
          LET c == [id |-> n, here |-> here, by |-> by, ticket |-> t, kind |-> kind,
                    st |-> "read", row |-> tickets[t]] IN
          /\ \A m \in FreeCalls : n <= m
          /\ \/ ~ Refused(kind, tickets[t]) /\ calls' = calls \cup {c}
             \/ /\ Refused(kind, tickets[t]) /\ here
                /\ calls' = calls \cup {[c EXCEPT !.st = "failed", !.row = NewTicket]}
    /\ UNCHANGED <<tickets, drawing>>

(* Every button posts to the ticket opened last.                           *)
Press(kind) == desk.visible /\ Send(TRUE, desk.side, kind, desk.current)

sendReply ==
    /\ desk.status # "closed" /\ ~ desk.stars /\ ~ desk.busy
    /\ Press("reply")
    /\ desk' = [desk EXCEPT !.busy = TRUE]

showRatingPicker ==
    /\ desk.side = "creator" /\ desk.visible /\ desk.status # "closed" /\ ~ desk.stars
    /\ desk' = [desk EXCEPT !.stars = TRUE]
    /\ UNCHANGED <<tickets, drawing, calls>>

(* A star.                                                                 *)
closeWithRating == desk.stars /\ Press("close") /\ UNCHANGED desk

(* Once confirmed.                                                         *)
forceClose ==
    desk.side = "staff" /\ desk.status # "closed" /\ Press("close") /\ UNCHANGED desk

reopen == desk.side = "creator" /\ desk.status = "closed" /\ Press("reopen") /\ UNCHANGED desk

(* After an answer the ticket opened last is read again and drawn.         *)
TicketAnswered(c) ==
    /\ c \in calls /\ c.here
    /\ \/ c.st = "ok" /\ drawing' = drawing \cup {tickets[desk.current].status}
       \/ c.st = "failed" /\ UNCHANGED drawing
    /\ calls' = calls \ {c}
    /\ LET d == [desk EXCEPT !.busy = @ /\ c.kind # "reply"] IN
       desk' = IF d.visible THEN d ELSE Hidden(d, calls')
    /\ UNCHANGED tickets

(* The other side, and other staff, send their requests from pages of      *)
(* their own, which may show any ticket in any status.                     *)
Elsewhere(by, kind, t) ==
    /\ by = "staff" \/ by # desk.side
    /\ by = "staff" => kind # "reopen"
    /\ Send(FALSE, by, kind, t)
    /\ UNCHANGED desk

----------------------------------------------------------------------------
TicketsInit ==
    /\ tickets = [t \in TicketIds |-> NewTicket]
    /\ desk \in {ClosedDialog(side) : side \in Sides}
    /\ drawing = {}
    /\ calls = {}

TicketsNext ==
    \/ \E c \in calls : CommitTicket(c) \/ TicketAnswered(c)
    \/ \E t \in TicketIds : \/ OpenTicket(t)
                            \/ \E by \in Sides, kind \in Kinds : Elsewhere(by, kind, t)
    \/ \E st \in drawing : OpenFails(st) \/ RenderDetail(st)
    \/ CloseTicketDialog \/ sendReply \/ showRatingPicker
    \/ closeWithRating \/ forceClose \/ reopen

TicketsSpec == TicketsInit /\ [][TicketsNext]_ticketVars

----------------------------------------------------------------------------
TicketCalls == [id : CallSlots, here : BOOLEAN, by : Sides, ticket : TicketIds, kind : Kinds,
                st : {"read", "ok", "failed"}, row : TicketRow]

(* The rows, the dialog and the requests have their types.                 *)
TicketsTypeOK ==
    /\ tickets \in [TicketIds -> TicketRow]
    /\ desk \in [side : Sides, visible : BOOLEAN, current : TicketIds \cup {NoTicket},
                  status : TicketStatuses \cup {"none"}, stars : BOOLEAN, busy : BOOLEAN]
    /\ drawing \subseteq TicketStatuses
    /\ calls \subseteq TicketCalls

(* ticket_service.py:313-314: a closed ticket has the time of its closing, *)
(* whatever replies, closings and reopenings overlap: each writes back     *)
(* only what differs from the row it read.                                 *)
ClosedHasTime == \A t \in TicketIds : tickets[t].status = "closed" => tickets[t].closed

(* models/ticket.py:81: a rating is there only when the creator has closed *)
(* the ticket.                                                             *)
RatedIsClosed == \A t \in TicketIds : tickets[t].rated => tickets[t].status = "closed"

=============================================================================
