----------------------------- MODULE OneDisplay -----------------------------
(***************************************************************************)
(* What AppImageSender promises the owner of the panel.  A request is        *)
(* committed once, and only when every earlier one for its image is known   *)
(* to have succeeded; an image with a failed or lost request is not asked   *)
(* for again.  A request is drawn at most once and never after a newer one  *)
(* was committed, and success is said only of what was drawn.  A verdict is *)
(* not final: a second look at a receipt may overrule the first.            *)
(***************************************************************************)
EXTENDS Naturals

CONSTANTS Requests, Images, NoImage

VARIABLES
    image,     \* of each request, NoImage for one that nobody made
    verdict,   \* of each request: open, ok or failed
    off,       \* images that are not asked for again
    sent,      \* requests committed
    drawn,     \* requests drawn
    panel      \* the image on the panel

displayVars == <<image, verdict, off, sent, drawn, panel>>

Init ==
    /\ image = [i \in Requests |-> NoImage]
    /\ verdict = [i \in Requests |-> "open"]
    /\ off = {} /\ sent = {} /\ drawn = {}
    /\ panel = NoImage

Ask(i, f) ==
    /\ image[i] = NoImage /\ f \notin off
    /\ image' = [image EXCEPT ![i] = f]
    /\ UNCHANGED <<verdict, off, sent, drawn, panel>>

Commit(i) ==
    /\ image[i] # NoImage /\ verdict[i] = "open" /\ image[i] \notin off
    /\ \A j \in sent : j < i /\ (image[j] = image[i] => verdict[j] = "ok")
    /\ sent' = sent \cup {i}
    /\ UNCHANGED <<image, verdict, off, drawn, panel>>

Draw(i) ==
    /\ i \in sent \ drawn
    /\ \A j \in sent : j <= i
    /\ drawn' = drawn \cup {i}
    /\ panel' = image[i]
    /\ UNCHANGED <<image, verdict, off, sent>>

Succeed(i) ==
    /\ i \in drawn
    /\ verdict' = [verdict EXCEPT ![i] = "ok"]
    /\ UNCHANGED <<image, off, sent, drawn, panel>>

Fail(i) ==
    /\ image[i] # NoImage
    /\ verdict' = [verdict EXCEPT ![i] = "failed"]
    /\ off' = off \cup {image[i]}
    /\ UNCHANGED <<image, sent, drawn, panel>>

Next ==
    \E i \in Requests :
        \/ \E f \in Images : Ask(i, f)
        \/ Commit(i) \/ Draw(i) \/ Succeed(i) \/ Fail(i)

Spec == Init /\ [][Next]_displayVars
=============================================================================
