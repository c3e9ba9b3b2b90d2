------------------------------ MODULE AgentTab ------------------------------
(***************************************************************************)
(* A chat tab (app.js openAgentTab): the composer with dictation, the turn *)
(* under way, the permission cards the agent puts into it, the key a       *)
(* person may type for a model, the transcript and its record in the       *)
(* browser.  Each action is the code between two awaits; of the server     *)
(* there is what the tab sees of it.                                       *)
(*                                                                         *)
(* Words are numbered as they are typed or spoken; a prompt is a sequence  *)
(* of them and an answer is <<0>>.                                         *)
(***************************************************************************)
EXTENDS Naturals, Sequences, SequencesExt, Lists

CONSTANTS None,
          Profile,   \* the models
          WithKey,   \* those that need a key of the person
          Scope,     \* what can be shared
          Limit,     \* agentHistoryLimit
          MaxWords, MaxSessions, MaxHandles  \* bounds

VARIABLES
    composer, words,                 \* what stands in the composer; the words so far
    speech, accepting, base, heard,  \* the recogniser; acceptingDictationResults; dictationBase; what it heard
    profile, keyField,               \* the model chosen; a key stands in its field
    handle, handleOf,                \* credentialHandle, credentialProfileId
    made, held,                      \* handles the server made; those of the keys it keeps
    strays,                          \* keys that are not the tab's, each with its DELETE under way or without one
    turn,                            \* activeRequest, None if idle
    cards, shared,                   \* permission cards; what is shared
    conversation, chat, session,     \* the transcript; conversationKey; conversationId
    signature, saved,                \* persistedSignature; the records, the newest first
    closed,
    sent, dropped, used  \* history: what was sent; chats deleted or pushed out; what each session served

dictation == <<speech, accepting, base, heard>>
text == <<composer, words, dictation>>
keys == <<profile, keyField, handle, handleOf, made, held, strays>>
permissions == <<cards, shared>>
record == <<signature, saved, dropped>>
dialogue == <<conversation, chat, session>>
history == <<sent, used>>
vars == <<text, keys, turn, permissions, dialogue, record, closed, history>>

TypeOK ==
    /\ ToSet(composer) \subseteq 1..words /\ words <= MaxWords
    /\ speech \in {"off", "starting", "on", "ending"} /\ (accepting => speech # "off")
    /\ profile \in Profile /\ (handle = None \/ handle \in 1..made) /\ held \subseteq 1..made
    /\ turn = None \/ turn.at \in {"key", "stream"}
    /\ \A c \in cards : c.scope \in Scope /\ (c.open \/ c.answer # None)
    /\ Len(saved) <= Limit

Idle == turn = None /\ ~closed
Streaming == turn # None /\ turn.at = "stream"

-----------------------------------------------------------------------------
(* The composer *)

StopDictation(abort) ==
    /\ accepting' = (accepting /\ ~abort)
    /\ speech' = IF speech = "off" THEN "off" ELSE "ending"
    /\ UNCHANGED <<base, heard>>

\* Typing ends a dictation, once it has begun.
Type ==
    /\ ~closed /\ words < MaxWords /\ words' = words + 1
    /\ composer' = Append(composer, words')
    /\ IF speech \in {"on", "ending"} THEN StopDictation(TRUE) ELSE UNCHANGED dictation
    /\ UNCHANGED <<keys, turn, permissions, dialogue, record, closed, history>>

ToggleDictation ==
    /\ Idle
    /\ IF speech # "off" THEN StopDictation(FALSE)
       ELSE speech' = "starting" /\ accepting' = TRUE /\ base' = composer /\ heard' = <<>>
    /\ UNCHANGED <<composer, words, keys, turn, permissions, dialogue, record, closed, history>>

DictationStarts ==
    /\ speech = "starting" /\ speech' = "on"
    /\ UNCHANGED <<composer, words, accepting, base, heard>>
    /\ UNCHANGED <<keys, turn, permissions, dialogue, record, closed, history>>

\* Mutated: a result that comes late is taken, too.
TakesAny == TRUE

Takes == accepting

\* The recogniser tells all it has heard so far, with one more word or none; also while it ends.
DictationResult(more) ==
    /\ speech \in {"on", "ending"} /\ words + more <= MaxWords /\ words' = words + more
    /\ heard' = IF more = 1 THEN Append(heard, words') ELSE heard
    /\ composer' = IF Takes THEN base \o heard' ELSE composer
    /\ UNCHANGED <<speech, accepting, base>>
    /\ UNCHANGED <<keys, turn, permissions, dialogue, record, closed, history>>

\* It ends when told to, on an error, or by itself.
DictationEnds ==
    /\ speech # "off" /\ speech' = "off" /\ accepting' = FALSE /\ base' = <<>> /\ heard' = <<>>
    /\ UNCHANGED <<composer, words, keys, turn, permissions, dialogue, record, closed, history>>

-----------------------------------------------------------------------------
(* The records in the browser *)

Chats(records) == {r.chat : r \in ToSet(records)}
Others(key) == Keep(saved, {r \in ToSet(saved) : r.chat # key})

\* writeAgentHistory: the newest, as many as are allowed and as there is room for.
Write(records) ==
    /\ \E room \in 1..Limit : saved' = SubSeq(records, 1, IF Len(records) < room THEN Len(records) ELSE room)
    /\ dropped' = dropped \cup (Chats(records) \ Chats(saved'))

\* persistConversation, but for the signature
Persist(messages) ==
    IF messages \in {<<>>, signature} THEN UNCHANGED <<saved, dropped>>
    ELSE Write(<<[chat |-> chat, messages |-> messages]>> \o Others(chat))

DeleteChat(key) ==
    /\ ~closed /\ key \in Chats(saved)
    /\ saved' = Others(key) /\ dropped' = dropped \cup {key} /\ UNCHANGED signature
    /\ UNCHANGED <<text, keys, turn, permissions, dialogue, closed, history>>

NewChat ==
    /\ Idle /\ session < MaxSessions
    /\ Persist(conversation) /\ signature' = <<>>
    /\ conversation' = <<>> /\ chat' = chat + 1 /\ session' = session + 1
    /\ composer' = <<>>
    /\ UNCHANGED <<words, dictation, keys, turn, permissions, closed, history>>

-----------------------------------------------------------------------------
(* The model and its key *)

TypeKey ==
    /\ Idle /\ ~keyField /\ keyField' = TRUE
    /\ UNCHANGED <<text, profile, handle, handleOf, made, held, strays>>
    /\ UNCHANGED <<turn, permissions, dialogue, record, closed, history>>

HasRequiredCredential == profile \in WithKey => keyField \/ (handle # None /\ handleOf = profile)

\* Mutated: nobody asks for the removal of the key the tab gives up.
TakenBackNever(key) == {}

\* removeCredential: a DELETE that nobody waits for.
TakenBack(key) == IF key = None THEN {} ELSE {[key |-> key, asked |-> TRUE]}

\* discardCredential, but for the DELETE
DiscardCredential == handle' = None /\ handleOf' = None

RemovalArrives(stray) ==
    /\ stray.asked /\ held' = held \ {stray.key} /\ strays' = strays \ {stray}
    /\ UNCHANGED <<text, profile, keyField, handle, handleOf, made>>
    /\ UNCHANGED <<turn, permissions, dialogue, record, closed, history>>

\* The failure is swallowed, and nobody asks again.
RemovalFails(stray) ==
    /\ stray.asked /\ strays' = (strays \ {stray}) \cup {[stray EXCEPT !.asked = FALSE]}
    /\ UNCHANGED <<text, profile, keyField, handle, handleOf, made, held>>
    /\ UNCHANGED <<turn, permissions, dialogue, record, closed, history>>

\* EphemeralCredentialStore keeps no key for ever, the one in use included; a
\* removal that is still under way then finds nothing to remove.
KeyExpires(key) ==
    /\ held' = held \ {key} /\ strays' = {s \in strays : s.key # key}
    /\ UNCHANGED <<text, profile, keyField, handle, handleOf, made>>
    /\ UNCHANGED <<turn, permissions, dialogue, record, closed, history>>

\* Another model takes another session, and its own key.
ChooseProfile(p) ==
    /\ Idle /\ p # profile /\ session < MaxSessions
    /\ profile' = p /\ session' = session + 1
    /\ DiscardCredential /\ strays' = strays \cup TakenBack(handle)
    /\ keyField' = FALSE /\ UNCHANGED <<made, held>>
    /\ UNCHANGED <<text, turn, permissions, conversation, chat, record, closed, history>>

-----------------------------------------------------------------------------
(* A turn *)

\* send, once the key is there
Dispatch(message) ==
    /\ composer' = <<>> /\ conversation' = Append(conversation, message)
    /\ turn' = [at |-> "stream", message |-> message, answered |-> FALSE]
    /\ sent' = sent \cup {[chat |-> chat, message |-> message]}
    /\ used' = used \cup {[session |-> session, profile |-> profile, chat |-> chat]}

\* Send is pressed.  The microphone goes off whatever comes of it.
Send ==
    /\ ~closed /\ StopDictation(TRUE)
    /\ IF turn # None \/ composer = <<>> \/ ~HasRequiredCredential
       THEN UNCHANGED <<composer, conversation, turn, keyField, history>>
       ELSE IF keyField
       THEN /\ turn' = [at |-> "key", message |-> composer, answered |-> FALSE]
            /\ keyField' = FALSE /\ UNCHANGED <<composer, conversation, history>>
       ELSE Dispatch(composer) /\ UNCHANGED keyField
    /\ UNCHANGED <<words, profile, handle, handleOf, made, held, strays>>
    /\ UNCHANGED <<permissions, chat, session, record, closed>>

\* storeCredentialIfSupplied goes on, and send with it.
KeyStored ==
    /\ turn # None /\ turn.at = "key" /\ made < MaxHandles /\ made' = made + 1
    /\ handle' = made' /\ handleOf' = profile
    /\ held' = held \cup {made'} /\ strays' = strays \cup TakenBack(handle)
    /\ Dispatch(turn.message)
    /\ UNCHANGED <<words, dictation, profile, keyField, permissions, chat, session, record, closed>>

Unsettled == {[c EXCEPT !.open = FALSE] : c \in {d \in cards : d.answer # None}}

\* Mutated: the cards stay.
FinallyUnsettled(messages) ==
    /\ turn' = None /\ conversation' = messages /\ UNCHANGED cards
    /\ Persist(messages) /\ signature' = messages

\* The finally of send; of a card only the answer under way is left.
Finally(messages) ==
    /\ turn' = None /\ conversation' = messages /\ cards' = Unsettled
    /\ Persist(messages) /\ signature' = messages

AroundTurn == <<text, profile, keyField, handle, handleOf, shared, chat, session, closed, history>>

\* What becomes of the request for a key that fails or is aborted, if one is under
\* way: the server may have stored the key all the same.
AbortKey(more) ==
    \/ strays' = strays \cup more /\ UNCHANGED <<made, held>>
    \/ /\ turn # None /\ turn.at = "key" /\ made < MaxHandles /\ made' = made + 1
       /\ held' = held \cup {made'} /\ strays' = strays \cup more \cup {[key |-> made', asked |-> FALSE]}

KeyFails ==
    /\ turn # None /\ turn.at = "key" /\ Finally(conversation) /\ AbortKey({})
    /\ UNCHANGED AroundTurn

Delta ==
    /\ Streaming /\ ~turn.answered /\ turn' = [turn EXCEPT !.answered = TRUE]
    /\ UNCHANGED <<text, keys, permissions, dialogue, record, closed, history>>

\* The stream ends: completed, or at least with something answered.
StreamCompletes ==
    /\ Streaming /\ Finally(Append(conversation, <<0>>))
    /\ UNCHANGED <<AroundTurn, made, held, strays>>

\* It ends with an error, breaks off, or had nothing to say.
StreamFails ==
    /\ Streaming /\ Finally(conversation)
    /\ UNCHANGED <<AroundTurn, made, held, strays>>

\* By its button, or in the dialog of a tab to be left.
Cancel ==
    /\ turn # None /\ Finally(conversation) /\ AbortKey({})
    /\ UNCHANGED AroundTurn

-----------------------------------------------------------------------------
(* Permission cards *)

\* The agent asks for one scope at a time.
PermissionRequest(scope) ==
    /\ Streaming /\ \A c \in cards : ~c.open /\ c.scope # scope
    /\ cards' = cards \cup {[scope |-> scope, open |-> TRUE, answer |-> None]}
    /\ UNCHANGED <<text, keys, turn, shared, dialogue, record, closed, history>>

\* Allow or Deny is pressed, and the request is under way.
Answer(c, granted) ==
    /\ ~closed /\ c.open /\ c.answer = None
    /\ cards' = (cards \ {c}) \cup {[c EXCEPT !.answer = granted]}
    /\ UNCHANGED <<text, keys, turn, shared, dialogue, record, closed, history>>

AnswerTaken(c) ==
    /\ c.answer # None /\ cards' = cards \ {c}
    /\ shared' = IF c.answer = "yes" THEN shared \cup {c.scope} ELSE shared
    /\ UNCHANGED <<text, keys, turn, dialogue, record, closed, history>>

\* The buttons are there again, if the card is.
AnswerFails(c) ==
    /\ c.answer # None
    /\ cards' = (cards \ {c}) \cup {[d EXCEPT !.answer = None] : d \in {c} \cap {d \in cards : d.open}}
    /\ UNCHANGED <<text, keys, turn, shared, dialogue, record, closed, history>>

\* The server has settled it: answered, or out of time.
PermissionResolved(c) ==
    /\ Streaming /\ c.open
    /\ cards' = (cards \ {c}) \cup {[d EXCEPT !.open = FALSE] : d \in {c} \cap {d \in cards : d.answer # None}}
    /\ UNCHANGED <<text, keys, turn, shared, dialogue, record, closed, history>>

ShareBox(scope) ==
    /\ ~closed
    /\ shared' = IF scope \in shared THEN shared \ {scope} ELSE shared \cup {scope}
    /\ UNCHANGED <<text, keys, turn, cards, dialogue, record, closed, history>>

-----------------------------------------------------------------------------

\* onClose, and what is left of the turn it aborts.
Close ==
    /\ ~closed /\ closed' = TRUE
    /\ StopDictation(TRUE) /\ turn' = None
    /\ DiscardCredential /\ AbortKey(TakenBack(handle))
    /\ Persist(conversation) /\ signature' = IF conversation = <<>> THEN signature ELSE conversation
    /\ conversation' = <<>> /\ cards' = Unsettled
    /\ UNCHANGED <<composer, words, profile, keyField, shared, chat, session, history>>

\* A new chat, or a saved one opened again.
Init ==
    /\ composer = <<>> /\ words = 0 /\ speech = "off" /\ accepting = FALSE /\ base = <<>> /\ heard = <<>>
    /\ profile \in Profile /\ keyField = FALSE /\ handle = None /\ handleOf = None
    /\ made = 0 /\ held = {} /\ strays = {}
    /\ turn = None /\ cards = {} /\ shared \in SUBSET Scope
    /\ conversation \in {<<>>, <<<<0>>>>} /\ chat = 1 /\ session = 1
    /\ signature = conversation
    /\ saved = IF conversation = <<>> THEN <<>> ELSE <<[chat |-> chat, messages |-> conversation]>>
    /\ closed = FALSE /\ sent = {} /\ dropped = {} /\ used = {}

Next ==
    \/ Type \/ ToggleDictation \/ DictationStarts \/ DictationEnds \/ \E more \in {0, 1} : DictationResult(more)
    \/ NewChat \/ \E key \in 1..MaxSessions : DeleteChat(key)
    \/ TypeKey \/ \E p \in Profile : ChooseProfile(p)
    \/ \E stray \in strays : RemovalArrives(stray) \/ RemovalFails(stray)
    \/ \E key \in held : KeyExpires(key)
    \/ Send \/ KeyStored \/ KeyFails \/ Delta \/ StreamCompletes \/ StreamFails \/ Cancel
    \/ \E scope \in Scope : PermissionRequest(scope) \/ ShareBox(scope)
    \/ \E c \in cards : AnswerTaken(c) \/ AnswerFails(c) \/ PermissionResolved(c)
                        \/ \E granted \in {"yes", "no"} : Answer(c, granted)
    \/ Close

Spec == Init /\ [][Next]_vars

-----------------------------------------------------------------------------
(* Properties *)

\* What was sent is not put back into the composer by a recogniser that is late.
NothingSentComesBack ==
    \A s \in sent : ToSet(s.message) \cap ToSet(composer) = {}

\* Whatever becomes of a turn, what was sent stays in the record of its chat until
\* the chat is deleted or pushed out; and the record is never behind an idle tab.
SentIsKept ==
    turn = None =>
        /\ \A s \in sent : \/ s.chat \in dropped
                           \/ \E r \in ToSet(saved) : r.chat = s.chat /\ s.message \in ToSet(r.messages)
        /\ ~closed => signature = conversation

\* A session at the provider serves one model and one chat.
SessionsAreNotMixed ==
    \A u, v \in used : u.session = v.session => u = v

\* No key is forgotten: the server keeps none but the one in use, which is of the
\* model chosen, those whose removal is under way, and those the tab cannot take
\* back, since the removal failed or the tab was never told of the key; and the
\* key in use is never one whose removal was asked for.  A closed tab uses none.
KeysAreTakenBack ==
    /\ held \subseteq {handle} \cup {s.key : s \in strays}
    /\ \A s \in strays : s.key # handle
    /\ handle # None => handleOf = profile /\ ~closed

\* No permission card waits for an answer after its turn.
NoCardOutlivesItsTurn == turn = None => \A c \in cards : ~c.open
=============================================================================
