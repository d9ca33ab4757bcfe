----------------------------- MODULE RoomWizard ----------------------------
(***************************************************************************)
(* The four steps in which a room is added, or a tenant assigned to one:   *)
(* the room, the tenant, the contract and the review.  Sections 1 to 3 are *)
(* filled in or not; what they hold is not told apart.                     *)
(***************************************************************************)
EXTENDS WebPage

Review == 4

\* No status is chosen yet.
NoStatus == ""

\* room is the draft or the room the wizard saves to; none for a new room.
InitialUi ==
    [step |-> 1, status |-> NoStatus, filled |-> {}, room |-> None, wait |-> {}, error |-> FALSE, open |-> {}]

\* Visited for a new room, or for one whose number is in the address.
Visit(room) ==
    /\ ui' = InitialUi
    /\ calls' = IF room = None THEN Unmounted(calls)
                ELSE AskFor(Unmounted(calls), <<"room", room>>, {"fetch"}, None)

Init ==
    /\ ui = InitialUi
    /\ db = [r \in Rows |-> IF r = 1 THEN "available" ELSE "none"]
    /\ calls \in {{}} \union {AskFor({}, <<"room", r>>, {"fetch"}, None) : r \in {r \in Rows : db[r] = "available"}}
    /\ clicks = 0 /\ clean = TRUE

-----------------------------------------------------------------------------
(* The steps                                                               *)

\* Variant: the room is filled in and the user stays where he is.
RoomFetchedInPlace ==
    \E c \in Answered({"room"}) :
        \/ c.ans = Failed /\ Uses(c, ui)
        \/ c.ans # Failed /\ Uses(c, [ui EXCEPT !.room = c.req[2], !.status = "occupied"])

\* The room arrives, whatever the user has done meanwhile: it replaces the first
\* section, complete or not, and the tenant is next.
RoomFetched ==
    \E c \in Answered({"room"}) :
        \/ c.ans = Failed /\ Uses(c, ui)
        \/ /\ c.ans # Failed
           /\ \E complete \in {{}, {1}} :
                Uses(c, [ui EXCEPT !.room = c.req[2], !.status = "occupied", !.step = 2,
                                   !.filled = (@ \ {1}) \union complete])

ChooseStatus(status) == ui.step = 1 /\ Show([ui EXCEPT !.status = status])

\* A section is completed, or a field of it cleared.
Edit(section) ==
    /\ ui.step = section
    /\ Show([ui EXCEPT !.filled = IF section \in @ THEN @ \ {section} ELSE @ \union {section}])

\* The sections of the tenant and the contract count for an occupied room only.
ValidStep(step) ==
    CASE step = 1 -> 1 \in ui.filled /\ ui.status # NoStatus
      [] step \in {2, 3} -> ui.status = "occupied" => step \in ui.filled
      [] OTHER -> TRUE

GoNext ==
    /\ ui.step < Review
    /\ Show(IF ~ValidStep(ui.step) THEN [ui EXCEPT !.error = TRUE]
            ELSE [ui EXCEPT !.step = IF ui.step = 1 /\ ui.status = "available" THEN Review ELSE @ + 1,
                            !.error = FALSE])

GoBack ==
    /\ ui.step > 1
    /\ Show([ui EXCEPT !.step = IF ui.step = Review /\ ui.status = "available" THEN 1 ELSE @ - 1])

-----------------------------------------------------------------------------
(* Saving                                                                  *)

SubmitToServer(draft) ==
    /\ MayCall
    /\ ui' = [Raise(ui, "submit") EXCEPT !.error = FALSE]
    /\ calls' = Send(calls, <<"store", ui.room, ui.status, ui.filled, draft>>, {"submit"}, None)
    /\ UNCHANGED db

\* The button of the draft is never disabled.
SaveDraft == ui.step = 1 /\ ValidStep(1) /\ SubmitToServer(TRUE)

SubmitRoom == ui.step = Review /\ "submit" \notin ui.wait /\ SubmitToServer(FALSE)

\* The page is left for the rooms, or, where the tenant has no account yet, for
\* the invitations; any other failure is shown.
Stored ==
    \E c \in Answered({"store"}) :
        \/ Fails(c)
        \/ /\ ui' = InitialUi /\ calls' = Unmounted(calls \ {c})
           /\ UNCHANGED db

-----------------------------------------------------------------------------

\* External to the page: a room with a tenant gets a draft of a contract and
\* stays available; it gets no second one.
Effects(c) ==
    LET tenancy == c.req[3] = "occupied" /\ 2 \in c.req[4]
        stored(r) == [db EXCEPT ![r] = IF tenancy THEN "promised" ELSE c.req[3]]
    IN  CASE Op(c) = "room" -> {db}
          [] c.req[2] = None -> {stored(r) : r \in {r \in Rows : db[r] = "none"}}
          [] OTHER -> IF tenancy /\ db[c.req[2]] = "promised" THEN {} ELSE {stored(c.req[2])}

Serve == ServeAny(Effects)

Leave ==
    /\ MayCall /\ UNCHANGED db
    /\ Visit(None) \/ \E r \in Rows : db[r] = "available" /\ Visit(r)

Deliver == RoomFetched \/ Stored

User ==
    \/ \E s \in {"available", "occupied"} : ChooseStatus(s)
    \/ \E section \in 1 .. 3 : Edit(section)
    \/ GoNext \/ GoBack \/ SaveDraft \/ SubmitRoom \/ Leave

Next == Step(User, Serve, Deliver, {}, {})
Spec == Init /\ [][Next]_pageVars

\* What is submitted for good is complete: the sections an occupied room needs
\* have been through their steps, wherever the room came from and whenever.
Complete ==
    \A c \in calls : Op(c) = "store" /\ ~c.req[5] =>
        /\ c.req[3] # NoStatus
        /\ c.req[3] = "occupied" => {2, 3} \subseteq c.req[4]
        /\ c.req[2] = None => 1 \in c.req[4]
=============================================================================
