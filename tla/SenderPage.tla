----------------------------- MODULE SenderPage -----------------------------
(***************************************************************************)
(* The page a sender writes on (the script of web/templates/               *)
(* sender_landing.html) in front of the requests of SendPipeline.tla: one  *)
(* composer, one `sending` flag, one of six views.  The network may lose a *)
(* request or its answer, and a reload forgets the request that is out.    *)
(***************************************************************************)
EXTENDS SendPipeline

CONSTANTS
  Tabs,      \* pages open in browsers
  PrintAt,   \* [Tabs -> Prints]: whose browser it is
  LinkAt,    \* [Tabs -> Links]: the link it was opened at
  NoText,    \* the empty composer
  NoCallYet  \* no request is out

ASSUME PageConstants ==
  /\ IsFiniteSet(Tabs)
  /\ PrintAt \in [Tabs -> Prints]
  /\ LinkAt \in [Tabs -> Links]
  /\ NoText \notin Bodies
  /\ NoCallYet \notin Calls

VARIABLES
  page,  \* page[t]: what tab t shows and waits for
  seen,  \* <<sender, text>> the warning view was shown about
  lost   \* some page will not see the answer of a request it sent

pvars == <<vars, page, seen, lost>>
server == vars

Views == {"none", "compose", "success", "paused", "rateLimited", "warning", "error"}

PageType == [view : Views, text : Bodies \cup {NoText}, sending : BOOLEAN,
             req : Calls \cup {NoCallYet}]

NoPage == [view |-> "none", text |-> NoText, sending |-> FALSE, req |-> NoCallYet]

PInit ==
  /\ Init
  /\ page = [t \in Tabs |-> NoPage]
  /\ seen = {}
  /\ lost = FALSE

-----------------------------------------------------------------------------
Show(t, view) == page' = [page EXCEPT ![t].view = view]

\* sender_landing: the page, or a notice without a composer.  From an open page
\* this is a reload.
Open(t) ==
  /\ page' = [page EXCEPT ![t] =
       IF LinkAt[t] \in active /\ OwnerOf[LinkAt[t]] \notin paused
       THEN [NoPage EXCEPT !.view = "compose"] ELSE NoPage]
  /\ lost' = (lost \/ page[t].sending)
  /\ UNCHANGED <<server, seen>>

\* Mutant: the composer is not read-only while a request is out.
MutTypeAnytime(t, b) ==
  /\ page[t].view = "compose"
  /\ page' = [page EXCEPT ![t].text = b]
  /\ UNCHANGED <<server, seen, lost>>

\* The composer and the prompt chips; setSending makes them read-only.
Type(t, b) ==
  /\ page[t].view = "compose"
  /\ ~ page[t].sending
  /\ page' = [page EXCEPT ![t].text = b]
  /\ UNCHANGED <<server, seen, lost>>

\* Mutant: the button stays enabled while a request is out.
MutCanClick(t) == page[t].view = "compose" /\ page[t].text # NoText

\* sendButton.disabled = sending || empty
CanClick(t) == page[t].view = "compose" /\ page[t].text # NoText /\ ~ page[t].sending

\* submit(ack): the request goes out and the server begins with it; a page that
\* was open for too long carries an expired token.
Submit(t, ack) ==
  /\ \E c \in Calls, form \in {"ok", "badToken"} :
       /\ \A u \in Tabs : page[u].req # c
       /\ Begin(c, PrintAt[t], LinkAt[t], page[t].text, ack, form)
       /\ page' = [page EXCEPT ![t].view = "compose", ![t].sending = TRUE, ![t].req = c]
  /\ UNCHANGED <<seen, lost>>

\* Mutant: submit itself is the listener, and the event its acknowledgement.
MutClickSend(t) == CanClick(t) /\ Submit(t, TRUE)

ClickSend(t) == CanClick(t) /\ Submit(t, FALSE)

ClickContinue(t) == page[t].view = "warning" /\ Submit(t, TRUE)

\* The request does not reach the server: fetch rejects.
Offline(t) ==
  /\ CanClick(t) \/ page[t].view = "warning"
  /\ Show(t, "error")
  /\ UNCHANGED <<server, seen, lost>>

\* What submit shows for the status of the answer.
ViewOf(status) ==
  CASE status = "success"       -> "success"
    [] status = "paused"        -> "paused"
    [] status = "rate_limited"  -> "rateLimited"
    [] status = "needs_warning" -> "warning"
    [] OTHER                    -> "error"

Answer(t) ==
  /\ page[t].sending
  /\ At(page[t].req, "idle")
  /\ LET view == ViewOf(call[page[t].req].answer) IN
     /\ page' = [page EXCEPT ![t].view = view, ![t].sending = FALSE, ![t].req = NoCallYet]
     /\ seen' = IF view = "warning" THEN seen \cup {<<PrintAt[t], page[t].text>>} ELSE seen
  /\ UNCHANGED <<server, lost>>

\* The connection breaks while the server is busy with the request, or its
\* answer is lost: fetch rejects, the server goes on.
LoseAnswer(t) ==
  /\ page[t].sending
  /\ page' = [page EXCEPT ![t].view = "error", ![t].sending = FALSE, ![t].req = NoCallYet]
  /\ lost' = TRUE
  /\ UNCHANGED <<server, seen>>

\* warningEditBtn, errorRetryBtn: back to the composer, with its text.
BackToComposer(t) ==
  /\ page[t].view \in {"warning", "error"}
  /\ Show(t, "compose")
  /\ UNCHANGED <<server, seen, lost>>

PNext ==
  \/ \E t \in Tabs :
       \/ Open(t) \/ (\E b \in Bodies : Type(t, b))
       \/ ClickSend(t) \/ ClickContinue(t) \/ Offline(t)
       \/ Answer(t) \/ LoseAnswer(t) \/ BackToComposer(t)
  \/ /\ (\E c \in Calls : Step(c)) \/ Around
     /\ UNCHANGED <<page, seen, lost>>

PSpec == PInit /\ [][PNext]_pvars

-----------------------------------------------------------------------------
(* Properties                                                              *)

PageTypeOK ==
  /\ page \in [Tabs -> PageType]
  /\ seen \subseteq Prints \X Bodies
  /\ lost \in BOOLEAN
  /\ \A t \in Tabs : page[t].sending <=> page[t].req # NoCallYet

\* Whoever sent a message the filter flags L2 or L3 was shown the warning about
\* this very text, and not about one they wrote before it.
FlaggedWasSeen ==
  \A i \in DOMAIN msgs :
    Severity(TextOf[msgs[i].body]) \in {"L2", "L3"} => <<msgs[i].print, msgs[i].body>> \in seen

\* "You sent it" is on the screen only for the text that is in the composer, and
\* only if that text was stored for this link - or its sender is blocked.
SuccessIsTrue ==
  \A t \in Tabs : page[t].view = "success" =>
    \/ <<OwnerOf[LinkAt[t]], PrintAt[t]>> \in blocks
    \/ \E i \in DOMAIN msgs : SameSend(i, PrintAt[t], LinkAt[t], page[t].text)

\* A sender with one page, none of whose requests lost its answer, sends no text
\* twice however they tap: the page never lets two requests of its own overlap.
OnePageSendsOnce ==
  Cardinality(Tabs) = 1 /\ ~ lost =>
    \A i, j \in DOMAIN msgs :
      /\ SameSend(i, msgs[j].print, msgs[j].link, msgs[j].body)
      /\ msgs[i].recent /\ msgs[j].recent /\ ~ msgs[i].blank
      => j <= i

-----------------------------------------------------------------------------
(* The inductive invariant of SenderPage_proofs                            *)

\* The request a page waits for is its own, and its views say what is so.
PageOK(t) ==
  /\ page[t].sending \/ page[t].view = "warning" => page[t].text # NoText
  /\ page[t].sending => page[t].view = "compose"
  /\ LET c == page[t].req IN
     page[t].sending /\ (~ At(c, "idle") \/ call[c].answer = "success") =>
       call[c].print = PrintAt[t] /\ call[c].link = LinkAt[t] /\ call[c].body = page[t].text
  /\ page[t].view = "warning" => <<PrintAt[t], page[t].text>> \in seen

\* An acknowledgement is one of a warning that was shown.
AcksOK ==
  /\ \A c \in Calls : ~ At(c, "idle") /\ call[c].ack => <<call[c].print, call[c].body>> \in seen
  /\ \A i \in DOMAIN msgs : msgs[i].ack => <<msgs[i].print, msgs[i].body>> \in seen

\* While no answer is lost every request has its page; and if that is the only page,
\* a request knows of all recent messages that are the same send, and so do rows.
Unstored == {"link", "owner", "block", "rate", "duplicate", "store"}

InOrder ==
  /\ ~ lost => \A c \in Calls : ~ At(c, "idle") => \E t \in Tabs : page[t].req = c
  /\ ~ lost /\ Cardinality(Tabs) = 1 =>
       /\ \A c \in Calls : call[c].pc \in Unstored =>
            \A i \in DOMAIN msgs :
              SameSend(i, call[c].print, call[c].link, call[c].body) /\ msgs[i].recent
              => i \in call[c].twins
       /\ \A i, j \in DOMAIN msgs :
            i < j /\ SameSend(i, msgs[j].print, msgs[j].link, msgs[j].body) /\ msgs[i].recent
            => i \in msgs[j].twins

PInv ==
  /\ PageTypeOK
  /\ \A t \in Tabs : PageOK(t)
  /\ SuccessIsTrue
  /\ AcksOK
  /\ InOrder
=============================================================================
