------------------------------ MODULE ChatView ------------------------------
(***************************************************************************)
(* What the chat page shows: the conversation chosen in the list, the one  *)
(* whose details are in the store (which is the one the page treats as     *)
(* active), and the messages in the store, all filled by GET requests that *)
(* are answered in any order (onSelectChat of Chats, the socket handlers   *)
(* and refreshCurrentConversation of ConversationUser, the sagas and the   *)
(* reducer of redux/chats).                                                *)
(*                                                                         *)
(* The messages of a conversation are a version here: every message        *)
(* stored, edited or deleted makes the next one, and its event goes to the *)
(* user room of every participant.  The lists, the manager chat of a group *)
(* and the flags of the reducer that only show spinners are left out.      *)
(***************************************************************************)
EXTENDS Naturals, FiniteSets, Bags

CONSTANTS
    Chat,
    MaxGets,        \* bound: GET requests under way at once
    MaxVersion      \* bound: versions of a conversation

ASSUME ChatViewConstants == MaxVersion \in Nat \ {0} /\ MaxGets \in Nat

VARIABLES
    newest,         \* the version of each conversation in the backend
    chosen,         \* selectedChat
    details,        \* chatUserDetails
    shown,          \* chatUserConversations: a conversation and a version
    gets,           \* the GET requests of the sagas: those of one kind for one
                    \* chat are told apart by the version they found
    events,         \* message and conversation events on their way to the page
    answers,        \* callbacks of messages sent, edited or deleted here: the
                    \* conversations they were created for
    online,         \* the chat socket
    passed,         \* the newest version of each conversation that was shown, or
                    \* whose event or GET had no effect
    crossed         \* requests for different conversations were under way at
                    \* once, or one failed, since the last undisturbed choice

chatVars == <<newest, chosen, details, shown, gets, events, answers, online, passed, crossed>>

NoMessages == [version |-> 0]

ChatViewTypeOK ==
    /\ newest \in [Chat -> 1 .. MaxVersion]
    /\ chosen \in Chat
    /\ details \in Chat
    /\ shown.version > 0 => shown.conversation \in Chat
    /\ events \subseteq Chat \X (1 .. MaxVersion)
    /\ answers \subseteq Chat
    /\ online \in BOOLEAN
    /\ passed \in [Chat -> 0 .. MaxVersion]
    /\ crossed \in BOOLEAN

\* A conversation has been chosen and is shown.
ChatViewInit ==
    /\ newest = [c \in Chat |-> 1]
    /\ chosen \in Chat
    /\ details = chosen
    /\ shown = [conversation |-> chosen, version |-> 1]
    /\ gets = EmptyBag
    /\ events = {}
    /\ answers = {}
    /\ online = TRUE
    /\ passed = [c \in Chat |-> IF c = chosen THEN 1 ELSE 0]
    /\ crossed = FALSE

-----------------------------------------------------------------------------
Pass(c, v) == passed' = [passed EXCEPT ![c] = IF v > @ THEN v ELSE @]

GetOf(kind, c) == [kind |-> kind, conversation |-> c, version |-> 0]

\* GET requests are sent.
Ask(requests) ==
    /\ BagCardinality(gets) + Cardinality(requests) <= MaxGets
    /\ gets' = gets (+) SetToBag(requests)

AskBoth(c) == Ask({GetOf("details", c), GetOf("messages", c)})

\* One of them is over.
Done(g) == gets' = gets (-) SetToBag({g})

\* refreshCurrentConversation, as it was when the conversation was active.
RefreshChat(c) ==
    /\ AskBoth(c)
    /\ crossed' = (crossed \/ c # chosen)

\* onSelectChat.
SelectChat(c) ==
    /\ chosen' = c
    /\ AskBoth(c)
    /\ crossed' = (gets # EmptyBag \/ answers # {})
    /\ UNCHANGED <<newest, details, shown, events, answers, online, passed>>

\* A participant changes what is stored: the event is lost if the page is not
\* connected.
ChangeChat(c) ==
    /\ newest[c] < MaxVersion
    /\ newest' = [newest EXCEPT ![c] = @ + 1]
    /\ IF online THEN events' = events \union {<<c, newest[c] + 1>>} /\ UNCHANGED passed
       ELSE Pass(c, newest[c] + 1) /\ UNCHANGED events

ChangeByOther(c) ==
    /\ ChangeChat(c)
    /\ UNCHANGED <<chosen, details, shown, gets, answers, online, crossed>>

\* This page sends, edits or deletes a message of the active conversation.
ChangeHere ==
    /\ ChangeChat(details)
    /\ answers' = answers \union {details}
    /\ UNCHANGED <<chosen, details, shown, gets, online, crossed>>

\* It is done: the callback refreshes the conversation it was created for.
ChangeAnswered(c) ==
    /\ c \in answers
    /\ answers' = answers \ {c}
    /\ RefreshChat(c)
    /\ UNCHANGED <<newest, chosen, details, shown, events, online, passed>>

\* It is done over REST: onSendMessage sets isUserMessageSent, and the effect
\* asks for the messages of the conversation active now.
SentByRest(c) ==
    /\ c \in answers
    /\ answers' = answers \ {c}
    /\ Ask({GetOf("messages", details)})
    /\ crossed' = (crossed \/ details # chosen)
    /\ UNCHANGED <<newest, chosen, details, shown, events, online, passed>>

\* Mutant of EventArrives: the event refreshes the details only.
EventArrivesDetails(c, v) ==
    /\ <<c, v>> \in events
    /\ events' = events \ {<<c, v>>}
    /\ \/ /\ c = details
          /\ Ask({GetOf("details", c)})
          /\ UNCHANGED <<passed, crossed>>
       \/ c # details /\ Pass(c, v) /\ UNCHANGED <<gets, crossed>>
    /\ UNCHANGED <<newest, chosen, details, shown, answers, online>>

\* refreshConversation: an event of the active conversation refreshes it.
EventArrives(c, v) ==
    /\ <<c, v>> \in events
    /\ events' = events \ {<<c, v>>}
    /\ \/ c = details /\ RefreshChat(c) /\ UNCHANGED passed
       \/ c # details /\ Pass(c, v) /\ UNCHANGED <<gets, crossed>>
    /\ UNCHANGED <<newest, chosen, details, shown, answers, online>>

\* The socket goes down with the events on their way; nothing is asked again
\* when it is back.
LoseSocket ==
    /\ online
    /\ online' = FALSE
    /\ events' = {}
    /\ passed' = [c \in Chat |-> IF \E v \in 1 .. MaxVersion : <<c, v>> \in events
                                         THEN newest[c] ELSE passed[c]]
    /\ UNCHANGED <<newest, chosen, details, shown, gets, answers, crossed>>

RegainSocket ==
    /\ ~online
    /\ online' = TRUE
    /\ UNCHANGED <<newest, chosen, details, shown, gets, events, answers, passed, crossed>>

\* The backend reads what is asked for.
ServeGet(g) ==
    /\ g.version = 0
    /\ gets' = (gets (-) SetToBag({g}))
               (+) SetToBag({[g EXCEPT !.version = newest[g.conversation]]})
    /\ UNCHANGED <<newest, chosen, details, shown, events, answers, online, passed, crossed>>

\* The answer of a GET: the reducer takes it for whichever conversation it is.
GotDetails(g) ==
    /\ g.kind = "details" /\ g.version > 0
    /\ details' = g.conversation
    /\ Done(g)
    /\ UNCHANGED <<newest, chosen, shown, events, answers, online, passed, crossed>>

GotMessages(g) ==
    /\ g.kind = "messages" /\ g.version > 0
    /\ shown' = [conversation |-> g.conversation, version |-> g.version]
    /\ Pass(g.conversation, g.version)
    /\ Done(g)
    /\ UNCHANGED <<newest, chosen, details, events, answers, online, crossed>>

\* A GET fails: the details stay, the messages are emptied.
GetFails(g) ==
    /\ shown' = IF g.kind = "messages" THEN NoMessages ELSE shown
    /\ crossed' = TRUE
    /\ Done(g)
    /\ UNCHANGED <<newest, chosen, details, events, answers, online, passed>>

ChatViewNext ==
    \/ \E c \in Chat :
          \/ SelectChat(c) \/ ChangeByOther(c) \/ ChangeAnswered(c) \/ SentByRest(c)
          \/ \E v \in 1 .. MaxVersion : EventArrives(c, v)
    \/ ChangeHere \/ LoseSocket \/ RegainSocket
    \/ \E g \in BagToSet(gets) : ServeGet(g) \/ GotDetails(g) \/ GotMessages(g) \/ GetFails(g)

ChatViewSpec == ChatViewInit /\ [][ChatViewNext]_chatVars

-----------------------------------------------------------------------------
ChatSettled == gets = EmptyBag /\ events = {} /\ answers = {}

\* Once nothing is under way, the page shows the chosen conversation as it is
\* stored, with changes made here and elsewhere, in whatever order their
\* events, callbacks and GETs came; unless requests for different
\* conversations crossed or one failed, or a newer version was shown before, or
\* its event came when another conversation was active or the socket was down.
ChatIsCurrent ==
    ChatSettled /\ ~crossed =>
       /\ details = chosen
       /\ shown.version > 0 /\ shown.conversation = chosen
       /\ shown.version = newest[chosen] \/ shown.version < passed[chosen]

=============================================================================
