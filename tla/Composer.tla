------------------------------ MODULE Composer ------------------------------
(***************************************************************************)
(* The composer of the chat page (ChatInputSection) and the sending of     *)
(* what it holds (onSend of ConversationUser, the onSendMessage saga): the *)
(* text and its draft in each conversation, a shared contact, a location   *)
(* that is still being determined, and for each sent message the socket    *)
(* packet, its acknowledgement or timeout, and the REST request that       *)
(* repeats it.                                                             *)
(*                                                                         *)
(* A text is the set of the words in it; each word is written once, so a   *)
(* word found twice was copied by the code.  The backend stores a message  *)
(* once for each clientMessageId, whichever way it comes (the property     *)
(* SentOnce of Messages).  Words are not deleted again.  Files (sent as    *)
(* REST requests only), replies, typing indicators and the caret are left  *)
(* out.                                                                    *)
(***************************************************************************)
EXTENDS Naturals, Sequences, FiniteSets

CONSTANTS
    Conversation,
    Word,
    NoWord,         \* the contact that is not shared
    MaxSends        \* bound: messages sent in a behaviour

ASSUME ComposerConstants == NoWord \notin Word /\ MaxSends \in Nat

VARIABLES
    active,         \* the conversation of draftKey
    text,
    draft,          \* the drafts in localStorage
    contact,        \* sharedContact
    location,       \* the text and the draftKey that the callback of a
                    \* position being determined has captured, or NoLocation
    connected,      \* the chat socket
    sends,          \* the messages sent from this page
    messages,       \* the messages the backend has stored
    writtenFor,     \* the conversation each word was written in
    moved           \* words that a late location has put somewhere else

composerVars == <<active, text, draft, contact, location, connected,
                  sends, messages, writtenFor, moved>>

NoLocation == [pending |-> FALSE]

Written == DOMAIN writtenFor

ComposerTypeOK ==
    /\ active \in Conversation
    /\ text \subseteq Word
    /\ draft \in [Conversation -> SUBSET Word]
    /\ contact \in Word \union {NoWord}
    /\ connected \in BOOLEAN
    /\ Len(sends) <= MaxSends
    /\ Written \subseteq Word
    /\ moved \subseteq Word

ComposerInit ==
    /\ active \in Conversation
    /\ text = {}
    /\ draft = [c \in Conversation |-> {}]
    /\ contact = NoWord
    /\ location = NoLocation
    /\ connected = TRUE
    /\ sends = <<>>
    /\ messages = {}
    /\ writtenFor = [w \in {} |-> active]
    /\ moved = {}

-----------------------------------------------------------------------------
\* updateText: the text and its draft change together.
UpdateText(c, words) ==
    /\ text' = words
    /\ draft' = [draft EXCEPT ![c] = words]

Write(w) ==
    writtenFor' = [x \in Written \union {w} |-> IF x = w THEN active ELSE writtenFor[x]]

\* onChangeText, and the words that emoji and mentions add.
AddWord(w) ==
    /\ w \notin Written
    /\ Write(w)
    /\ UpdateText(active, text \union {w})
    /\ contact' = NoWord
    /\ UNCHANGED <<active, location, connected, sends, messages, moved>>

\* onShareContact: the contact takes the place of the text.
ShareContact(w) ==
    /\ w \notin Written
    /\ Write(w)
    /\ UpdateText(active, {})
    /\ contact' = w
    /\ UNCHANGED <<active, location, connected, sends, messages, moved>>

\* onShareLocation: the callback keeps the text and the draftKey of now.
ShareLocation ==
    /\ ~location.pending
    /\ location' = [pending |-> TRUE, text |-> text, key |-> active]
    /\ UNCHANGED <<active, text, draft, contact, connected, sends, messages,
                   writtenFor, moved>>

\* The position is known: it is appended to the text of then (appendText), and
\* the result becomes the text of now and the draft of then.  When they are
\* not the same, words go back to where they were sent from, or over to
\* another conversation, and the words of now are lost.
LocationFound(w) ==
    /\ location.pending
    /\ w \notin Written
    /\ Write(w)
    /\ UpdateText(location.key, location.text \union {w})
    /\ moved' = IF location.key = active /\ location.text = text THEN moved
                ELSE moved \union location.text \union {w}
    /\ location' = NoLocation
    /\ UNCHANGED <<active, contact, connected, sends, messages>>

\* The position is refused, or not found in time.
LocationFails ==
    /\ location.pending
    /\ location' = NoLocation
    /\ UNCHANGED <<active, text, draft, contact, connected, sends, messages,
                   writtenFor, moved>>

\* Mutant of OpenConversation: the text stays when the conversation changes.
OpenConversationKeepText(c) ==
    /\ c # active
    /\ active' = c
    /\ contact' = NoWord
    /\ UNCHANGED <<text, draft, location, connected, sends, messages,
                   writtenFor, moved>>

\* The effect of draftKey: the text is the draft of the conversation that is
\* now active.
OpenConversation(c) ==
    /\ c # active
    /\ active' = c
    /\ text' = draft[c]
    /\ contact' = NoWord
    /\ UNCHANGED <<draft, location, connected, sends, messages,
                   writtenFor, moved>>

\* The page is loaded again: drafts are all it finds of what was there.
Reload ==
    /\ \E c \in Conversation : active' = c /\ text' = draft[c]
    /\ contact' = NoWord
    /\ location' = NoLocation
    /\ sends' = [i \in DOMAIN sends |->
                   IF sends[i].result = "open" THEN [sends[i] EXCEPT !.result = "forgotten"]
                   ELSE sends[i]]
    /\ UNCHANGED <<draft, connected, messages, writtenFor, moved>>

-----------------------------------------------------------------------------
\* A request that is on its way to the backend, or nothing.
NotSent == [step |-> "none"]

Sent(id) == [step |-> "sent", id |-> id]

\* onSend: the message goes out over the socket, or as a REST request if the
\* socket is down.  Both ways carry its clientMessageId.
Outgoing(words, id) ==
    [conversation |-> active,
     words |-> words,
     packet |-> IF connected THEN Sent(id) ELSE NotSent,
     rest |-> IF connected THEN NotSent ELSE Sent(id),
     result |-> "open"]

\* onSubmit: a message is made of what the composer holds, its place in sends
\* serving as its clientMessageId, and the composer and the draft are emptied.
Submit ==
    /\ text # {} \/ contact # NoWord
    /\ Len(sends) < MaxSends
    /\ sends' = Append(sends, Outgoing(IF contact = NoWord THEN text ELSE {contact},
                                       Len(sends) + 1))
    /\ UpdateText(active, {})
    /\ contact' = NoWord
    /\ UNCHANGED <<active, location, connected, messages, writtenFor, moved>>

\* The backend stores a message, or finds it stored, or refuses it.
Handle(i, request) ==
    LET message == [conversation |-> sends[i].conversation, id |-> sends[i][request].id,
                    words |-> sends[i].words]
    IN
    /\ sends[i][request].step = "sent"
    /\ \/ /\ messages' = messages \union {message}
          /\ sends' = [sends EXCEPT ![i][request].step = "accepted"]
       \/ /\ UNCHANGED messages
          /\ sends' = [sends EXCEPT ![i][request].step = "refused"]
    /\ UNCHANGED <<active, text, draft, contact, location, connected,
                   writtenFor, moved>>

AwaitsPacket(i) == sends[i].result = "open" /\ sends[i].rest = NotSent

\* The acknowledgement of the packet: a refusal is shown (realtimeError).
Acknowledged(i) ==
    /\ AwaitsPacket(i)
    /\ connected
    /\ sends[i].packet.step \in {"accepted", "refused"}
    /\ sends' = [sends EXCEPT ![i].result =
                   IF sends[i].packet.step = "accepted" THEN "sent" ELSE "error"]
    /\ UNCHANGED <<active, text, draft, contact, location, connected, messages,
                   writtenFor, moved>>

\* Mutant of Repeat: the second request is a new message.
RepeatAsNew(send) == [send EXCEPT !.rest = Sent(MaxSends + send.packet.id)]

\* sendWithRestFallback: the message is sent again.
Repeat(send) == [send EXCEPT !.rest = Sent(send.packet.id)]

\* Mutant of PacketTimesOut: the callback returns on an error.
PacketTimesOutQuietly(i) ==
    /\ AwaitsPacket(i)
    /\ sends' = [sends EXCEPT ![i].result = "sent"]
    /\ UNCHANGED <<active, text, draft, contact, location, connected, messages,
                   writtenFor, moved>>

\* No acknowledgement in five seconds.  The packet may still be on its way.
PacketTimesOut(i) ==
    /\ AwaitsPacket(i)
    /\ sends' = [sends EXCEPT ![i] = Repeat(@)]
    /\ UNCHANGED <<active, text, draft, contact, location, connected, messages,
                   writtenFor, moved>>

\* The socket goes down: every callback that waits is called with an error.
Disconnect ==
    /\ connected
    /\ connected' = FALSE
    /\ sends' = [i \in DOMAIN sends |->
                   IF AwaitsPacket(i) THEN Repeat(sends[i]) ELSE sends[i]]
    /\ UNCHANGED <<active, text, draft, contact, location, messages,
                   writtenFor, moved>>

Reconnect ==
    /\ ~connected
    /\ connected' = TRUE
    /\ UNCHANGED <<active, text, draft, contact, location, sends, messages,
                   writtenFor, moved>>

\* The saga gets the answer of the REST request, or an error: that is shown,
\* even if the request was carried out.
RestAnswered(i) ==
    /\ sends[i].result = "open"
    /\ sends[i].rest # NotSent
    /\ \/ sends[i].rest.step = "accepted" /\ sends' = [sends EXCEPT ![i].result = "sent"]
       \/ sends' = [sends EXCEPT ![i].result = "error"]
    /\ UNCHANGED <<active, text, draft, contact, location, connected, messages,
                   writtenFor, moved>>

ComposerNext ==
    \/ \E w \in Word : AddWord(w) \/ ShareContact(w) \/ LocationFound(w)
    \/ ShareLocation \/ LocationFails
    \/ \E c \in Conversation : OpenConversation(c)
    \/ Reload \/ Submit \/ Disconnect \/ Reconnect
    \/ \E i \in DOMAIN sends :
          \/ Handle(i, "packet") \/ Handle(i, "rest")
          \/ Acknowledged(i) \/ PacketTimesOut(i) \/ RestAnswered(i)

ComposerSpec == ComposerInit /\ [][ComposerNext]_composerVars

-----------------------------------------------------------------------------
\* What is written in a conversation is stored in that conversation and at
\* most once, and if its last callback has run without showing an error it is
\* stored, whatever the order of timeouts, late packets, repeated requests,
\* conversation switches and reloads.  Words that a late location has moved
\* are excepted.
SentHomeOnce ==
    /\ \A w \in Written \ moved :
          LET holders == {m \in messages : w \in m.words} IN
          /\ Cardinality(holders) <= 1
          /\ \A m \in holders : m.conversation = writtenFor[w]
    /\ \A i \in DOMAIN sends : sends[i].result = "sent" =>
          \E m \in messages : /\ m.conversation = sends[i].conversation
                              /\ m.words = sends[i].words

=============================================================================
