-------------------------- MODULE ConversationScreen --------------------------
(***************************************************************************)
(* The conversation monitor (apps/web/src/app/internal/conversations): the *)
(* list and the conversation looked at, taking one over into a ticket, the *)
(* history of its customer, and the search over all messages with its      *)
(* pause before asking.                                                    *)
(***************************************************************************)
EXTENDS Naturals, FiniteSets

CONSTANTS
    Talks,        \* the conversations; each has at most one ticket
    Words,        \* what is searched for, "" (or one letter) for too little
    Searches,     \* searches that may be under way at once
    MaxTyping,    \* bound: changes of the search field
    NoTalk        \* none

NoWords == ""     \* the search field is empty

ASSUME TalkAssumption ==
    /\ NoWords \in Words /\ MaxTyping \in Nat
    /\ NoTalk \notin Talks \cup Words /\ \A ts \in SUBSET Talks : NoTalk # ts

VARIABLES
    ticketed,   \* the server's conversations with a ticket
    talks,      \* the list as loaded: the conversations it knows a ticket of, or NoTalk
    listing,    \* the request for the list
    picked,     \* selectedConversationId
    created,    \* createdTicket, named by its conversation
    takeover,   \* the takeover under way
    story,      \* the customer history shown, and the request for it
    typed,      \* searchQuery, and how often it was changed
    pausing,    \* the timer before the search is running
    searching,  \* the searches under way
    found,      \* what the shown results are of, or NoTalk
    raced       \* a search was under way when another began or the field changed

talkVars == <<ticketed, talks, listing, picked, created, takeover, story, typed, pausing,
              searching, found, raced>>

Resting == [pc |-> "resting"]

TalksTypeOK ==
    /\ ticketed \subseteq Talks /\ (talks = NoTalk \/ talks \subseteq Talks)
    /\ listing \in {Resting, [pc |-> "asked"]} \cup [pc : {"served"}, got : SUBSET Talks]
    /\ picked \in Talks \cup {NoTalk} /\ created \in Talks \cup {NoTalk}
    /\ takeover \in {Resting} \cup [pc : {"sent", "done"}, of : Talks]
    /\ story \in [of : Talks \cup {NoTalk}, asked : Talks \cup {NoTalk}]
    /\ typed \in [now : Words, times : 0..MaxTyping] /\ pausing \in BOOLEAN
    /\ searching \in [Searches -> (Words \ {NoWords}) \cup {NoTalk}]
    /\ found \in (Words \ {NoWords}) \cup {NoTalk} /\ raced \in BOOLEAN

TalksInit ==
    /\ ticketed \in SUBSET Talks /\ talks = NoTalk /\ listing = [pc |-> "asked"]
    /\ picked = NoTalk /\ created = NoTalk /\ takeover = Resting
    /\ story = [of |-> NoTalk, asked |-> NoTalk]
    /\ typed = [now |-> NoWords, times |-> 0] /\ pausing = FALSE
    /\ searching = [s \in Searches |-> NoTalk] /\ found = NoTalk /\ raced = FALSE

searchVars == <<typed, pausing, searching, found, raced>>

-----------------------------------------------------------------------------
\* Mutant: the last ticket created here is linked, whatever is looked at.
LinkedLast == IF created # NoTalk THEN created
              ELSE IF picked # NoTalk /\ talks # NoTalk THEN
                       IF picked \in talks THEN picked ELSE NoTalk
              ELSE NoTalk
\* linkedTicketId: the ticket created here when it is of the conversation looked
\* at, otherwise the one the list knows.
Linked == IF created # NoTalk /\ created = picked THEN created
          ELSE IF picked # NoTalk /\ talks # NoTalk THEN
                   IF picked \in talks THEN picked ELSE NoTalk
          ELSE NoTalk

\* A conversation object other than before: the history is asked for again and
\* an earlier request is given up.
FollowStory == story' = IF picked' = NoTalk \/ talks' = NoTalk THEN [of |-> NoTalk, asked |-> NoTalk]
                        ELSE IF picked' = picked /\ talks' = talks THEN story
                        ELSE [story EXCEPT !.asked = picked']

Reload == /\ listing = Resting /\ listing' = [pc |-> "asked"]
          /\ UNCHANGED <<ticketed, talks, picked, created, takeover, story, searchVars>>

TalksServed == /\ listing.pc = "asked" /\ listing' = [pc |-> "served", got |-> ticketed]
               /\ UNCHANGED <<ticketed, talks, picked, created, takeover, story, searchVars>>

\* The list arrives; one of it is looked at when none was.
TalksShown == /\ listing.pc = "served" /\ talks' = listing.got /\ listing' = Resting
              /\ picked' \in (IF picked = NoTalk THEN Talks ELSE {picked})
              /\ story' = [story EXCEPT !.asked = picked']
              /\ UNCHANGED <<ticketed, created, takeover, searchVars>>

TalksLost == /\ listing.pc = "asked" /\ listing' = Resting
             /\ UNCHANGED <<ticketed, talks, picked, created, takeover, story, searchVars>>

Pick(c) == /\ talks # NoTalk /\ picked # c /\ picked' = c /\ created' = NoTalk
           /\ UNCHANGED <<ticketed, talks, listing, takeover, searchVars>>
           /\ FollowStory

\* Taking over is offered where no ticket is linked.
PressTakeover == /\ talks # NoTalk /\ Linked = NoTalk /\ takeover = Resting
                 /\ takeover' = [pc |-> "sent", of |-> picked]
                 /\ UNCHANGED <<ticketed, talks, listing, picked, created, story, searchVars>>

\* The server hands over the ticket the conversation has, or makes one.
TakeoverServed == /\ takeover.pc = "sent" /\ ticketed' = ticketed \cup {takeover.of}
                  /\ takeover' = [takeover EXCEPT !.pc = "done"]
                  /\ UNCHANGED <<talks, listing, picked, created, story, searchVars>>

TakeoverFails == /\ takeover.pc = "sent" /\ takeover' = Resting
                 /\ UNCHANGED <<ticketed, talks, listing, picked, created, story, searchVars>>

\* The ticket is noted for the conversation it was asked for, whichever is
\* looked at by now.
TakeoverShown == /\ takeover.pc = "done" /\ takeover' = Resting
                 /\ created' = takeover.of /\ talks' = talks \cup {takeover.of}
                 /\ UNCHANGED <<ticketed, listing, picked, searchVars>>
                 /\ FollowStory

\* The history asked for last arrives, or fails.
StoryShown == /\ story.asked # NoTalk
              /\ story' \in [of : {story.asked, NoTalk}, asked : {NoTalk}]
              /\ UNCHANGED <<ticketed, talks, listing, picked, created, takeover, searchVars>>

-----------------------------------------------------------------------------
deskVars == <<ticketed, talks, listing, picked, created, takeover, story>>
NoneSearching == \A s \in Searches : searching[s] = NoTalk

\* The field changes: the timer starts anew, and too little to search for takes
\* the results away. A search under way is not given up.
Type(w) ==
    /\ w # typed.now /\ typed.times < MaxTyping
    /\ typed' = [now |-> w, times |-> typed.times + 1]
    /\ pausing' = (w # NoWords)
    /\ found' = IF w = NoWords THEN NoTalk ELSE found
    /\ raced' = ~NoneSearching
    /\ UNCHANGED <<searching, deskVars>>

\* After the pause the field's words are searched for.
SearchBegins == /\ pausing /\ pausing' = FALSE
                /\ raced' = (raced \/ ~NoneSearching)
                /\ \E s \in Searches : /\ searching[s] = NoTalk
                                       /\ searching' = [searching EXCEPT ![s] = typed.now]
                /\ UNCHANGED <<typed, found, deskVars>>

\* The results are shown when they arrive (none, and an error, when it failed).
SearchShown(s) == /\ searching[s] # NoTalk /\ found' = searching[s]
                  /\ searching' = [searching EXCEPT ![s] = NoTalk]
                  /\ UNCHANGED <<typed, pausing, raced, deskVars>>

\* A result opens its conversation and ends the search.
OpenResult(c) ==
    /\ found # NoTalk /\ picked' = c /\ created' = NoTalk
    /\ typed' = [typed EXCEPT !.now = NoWords] /\ found' = NoTalk /\ pausing' = FALSE
    /\ raced' = ~NoneSearching
    /\ UNCHANGED <<ticketed, talks, listing, takeover, searching>>
    /\ FollowStory

TalksNext ==
    \/ Reload \/ TalksServed \/ TalksShown \/ TalksLost
    \/ PressTakeover \/ TakeoverServed \/ TakeoverFails \/ TakeoverShown \/ StoryShown
    \/ SearchBegins
    \/ \E c \in Talks : Pick(c) \/ OpenResult(c)
    \/ \E w \in Words : Type(w)
    \/ \E s \in Searches : SearchShown(s)

TalksSpec == TalksInit /\ [][TalksNext]_talkVars

-----------------------------------------------------------------------------
\* The ticket linked to the conversation on the screen is that conversation's
\* own and exists, though takeovers of others may be answered meanwhile.
LinkIsOwn == Linked # NoTalk => Linked = picked /\ Linked \in ticketed

\* The history shown is of the customer on the screen once none is on its way.
StoryIsOfPicked == story.asked = NoTalk /\ story.of # NoTalk => story.of = picked

\* The results under the field are of the words in it once nothing is under way,
\* unless a search outlived a change of the field.
ResultsAreOfField ==
    NoneSearching /\ ~pausing /\ ~raced
      => found = (IF typed.now = NoWords THEN NoTalk ELSE typed.now)
=============================================================================
