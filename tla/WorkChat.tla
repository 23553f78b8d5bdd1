------------------------------ MODULE WorkChat ------------------------------
(***************************************************************************)
(* The conversations of one Quest: its Work Conversation, and a Candidate  *)
(* Inquiry for each Worker who asks before he is accepted (work-chat).     *)
(*                                                                         *)
(* The Quest changes the Work Chat inside its own transaction, through the *)
(* membership writer, so a change of the Quest and what it does to its     *)
(* conversations are one step.  A message is stored under the lock of its  *)
(* conversation.  The time of a Quest change was taken before it had any   *)
(* lock, so it may be older than messages that are stored already: a time  *)
(* is the number of Work messages stored when the clock was read.          *)
(***************************************************************************)
EXTENDS Integers, Sequences, FiniteSets

CONSTANTS
    Hirer, Workers,
    Headcount,       \* accepted Workers that make the Quest ASSIGNED
    ClientKeys,      \* clientMessageId: what a client repeats when it retries
    MaxMessages      \* bound: messages of Members, in all conversations together

VARIABLES
    quest,          \* the Quest row: status, hidden_at
    assignment,     \* quest_assignment: NONE, ACTIVE or ENDED
    conversation,   \* chat_conversation: NONE, OPEN, READ_ONLY (Work) or CLOSED (Inquiry)
    membership,     \* chat_membership of the Work Conversation, with its window
    messages        \* chat_message of each conversation, by sequence

chatVars == <<quest, assignment, conversation, membership, messages>>

ChatMembers == Workers \union {Hirer}
Work == "work"
Conversations == Workers \union {Work}    \* an Inquiry is named by its Worker
System == "SYSTEM"                       \* who says that the Quest has ended
Never == -1

ASSUME WorkChatAssumptions ==
    /\ Hirer \notin Workers /\ Work \notin Workers /\ System \notin ChatMembers
    /\ Headcount \in 1..Cardinality(Workers)
    /\ MaxMessages \in Nat

Active == {w \in Workers : assignment[w] = "ACTIVE"}
Now == Len(messages[Work])
Current(m) == membership[m].joinedAt # Never /\ membership[m].leftAt = Never

\* The rows; a conversation that does not exist is NONE, a time that is not
\* set is Never.  A system message has no client message id.
ConversationRow == {"NONE", "OPEN", "READ_ONLY", "CLOSED"}
MembershipRow == [joinedAt : Nat \union {Never}, leftAt : Nat \union {Never}]
MessageRow == [sender : ChatMembers \union {System}, key : ClientKeys \union {0},
               at : Nat, hidden : BOOLEAN]

ChatTypeOK ==
    /\ quest \in [status : {"OPEN", "ASSIGNED", "ENDED"}, hidden : BOOLEAN]
    /\ assignment \in [Workers -> {"NONE", "ACTIVE", "ENDED"}]
    /\ conversation \in [Conversations -> ConversationRow]
    /\ membership \in [ChatMembers -> MembershipRow]
    /\ messages \in [Conversations -> Seq(MessageRow)]

ChatInit ==
    /\ quest = [status |-> "OPEN", hidden |-> FALSE]
    /\ assignment = [w \in Workers |-> "NONE"]
    /\ conversation = [c \in Conversations |-> "NONE"]
    /\ membership = [m \in ChatMembers |-> [joinedAt |-> Never, leftAt |-> Never]]
    /\ messages = [c \in Conversations |-> <<>>]

-----------------------------------------------------------------------------
(* The membership writer, in the Quest's transaction.  A Quest command that *)
(* is repeated finds its chat_transition_command and changes nothing.       *)

\* closeCandidateInquiries
CloseInquiries(of, chat) ==
    [c \in Conversations |-> IF c \in of /\ chat[c] = "OPEN" THEN "CLOSED" ELSE chat[c]]

\* Mutant: no Inquiry is closed before the Quest has all its Workers.
CloseWhenFull(of, status, chat) ==
    IF status = "ASSIGNED" THEN CloseInquiries(Workers, chat) ELSE chat

\* closeCandidateInquiriesForAcceptedWorkers
CloseInquiriesOfAccepted(of, status, chat) ==
    CloseInquiries(IF status = "ASSIGNED" THEN Workers ELSE of, chat)

Joins(m, at) == IF membership[m].joinedAt # Never THEN membership[m]
                ELSE [joinedAt |-> at, leftAt |-> Never]

\* workersAccepted: a Quest takes Workers while it is OPEN; the Work
\* Conversation begins with the first of them.
AcceptWorkers(S) ==
    LET full == Cardinality(Active \union S) = Headcount
        status == IF full THEN "ASSIGNED" ELSE "OPEN"
    IN  /\ quest.status = "OPEN" /\ ~quest.hidden
        /\ \A w \in S : assignment[w] = "NONE"
        /\ Cardinality(Active \union S) <= Headcount
        /\ quest' = [quest EXCEPT !.status = status]
        /\ assignment' = [w \in Workers |-> IF w \in S THEN "ACTIVE" ELSE assignment[w]]
        /\ conversation[Work] # "READ_ONLY"
        /\ conversation' = CloseInquiriesOfAccepted(S, status, [conversation EXCEPT ![Work] = "OPEN"])
        /\ membership' = [m \in ChatMembers |->
              IF m = Hirer \/ m \in S THEN Joins(m, Now) ELSE membership[m]]
        /\ UNCHANGED messages

\* questBecameAssigned: the Hirer goes on with an incomplete roster.
StartUnderfilled ==
    /\ quest.status = "OPEN" /\ Active # {}
    /\ quest' = [quest EXCEPT !.status = "ASSIGNED"]
    /\ conversation' = CloseInquiries(Workers, conversation)
    /\ UNCHANGED <<assignment, membership, messages>>

\* Mutant: a window closes a little later than the change that closes it.
LeaveLater(S, at) ==
    [m \in ChatMembers |-> IF m \in S /\ Current(m)
                       THEN [membership[m] EXCEPT !.leftAt = at + 1] ELSE membership[m]]

\* The windows of the Workers in S close, at a time the change began with.
LeaveAt(S, at) ==
    [m \in ChatMembers |-> IF m \in S /\ Current(m)
                       THEN [membership[m] EXCEPT !.leftAt = at] ELSE membership[m]]

WasMember(S, at) == \A w \in S : membership[w].joinedAt <= at

\* Mutant: the settlement of one Worker leaves his membership open.
SettleQuietly(w, at) ==
    /\ quest.status = "ASSIGNED" /\ Active \ {w} # {} /\ w \in Active /\ WasMember({w}, at)
    /\ assignment' = [assignment EXCEPT ![w] = "ENDED"]
    /\ UNCHANGED <<quest, conversation, membership, messages>>

\* workerBecameInactive: a Worker is paid, or has failed, while others work on.
SettleOneWorker(w, at) ==
    /\ quest.status = "ASSIGNED"
    /\ w \in Active /\ Active # {w}
    /\ conversation[Work] = "OPEN"
    /\ WasMember({w}, at)
    /\ assignment' = [assignment EXCEPT ![w] = "ENDED"]
    /\ membership' = LeaveAt({w}, at)
    /\ UNCHANGED <<quest, conversation, messages>>

SystemMessage(at) == [sender |-> System, key |-> 0, at |-> at, hidden |-> FALSE]

\* questBecameReadOnly: the Quest ends with the Assignments in "ended", and the
\* windows of the Workers in "left" close.  A Quest nobody joined has no Work
\* Conversation.
EndQuest(ended, left, at) ==
    /\ WasMember(left, at)
    /\ quest' = [quest EXCEPT !.status = "ENDED"]
    /\ assignment' = [w \in Workers |-> IF w \in ended THEN "ENDED" ELSE assignment[w]]
    /\ membership' = LeaveAt(left, at)
    /\ conversation' = CloseInquiries(Workers,
          [conversation EXCEPT ![Work] = IF @ = "OPEN" THEN "READ_ONLY" ELSE @])
    /\ messages' = [messages EXCEPT ![Work] =
          IF conversation[Work] = "OPEN" THEN Append(@, SystemMessage(at)) ELSE @]

\* The last Workers are paid: they leave with their windows open.
CompleteQuest(at) ==
    /\ quest.status = "ASSIGNED"
    /\ EndQuest(Active, {}, at)

CancelQuest(at) ==
    /\ quest.status # "ENDED"
    /\ EndQuest(Active, Active, at)

\* Mutant: every Worker of a failed Quest loses his membership.
FailDropsAll(S, at) ==
    /\ quest.status = "ASSIGNED"
    /\ S \subseteq Active
    /\ EndQuest(S, Active, at)

\* Only the Workers in S have failed.  The others stay ACTIVE in a Quest that
\* has ended, members of a conversation that is read-only.  The completion that
\* refuses the last Worker is of this form too.
FailQuest(S, at) ==
    /\ quest.status = "ASSIGNED"
    /\ S \subseteq Active
    /\ EndQuest(S, S, at)

\* The work of a failed Quest is paid or refused: the Work Chat is told nothing.
DecideFailedWork(w) ==
    /\ quest.status = "ENDED" /\ w \in Active
    /\ assignment' = [assignment EXCEPT ![w] = "ENDED"]
    /\ UNCHANGED <<quest, conversation, membership, messages>>

\* The Admin hides or shows the Quest, which no conversation is told of.
HideOrShowQuest ==
    /\ quest.status # "ENDED"
    /\ quest' = [quest EXCEPT !.hidden = ~@]
    /\ UNCHANGED <<assignment, conversation, membership, messages>>

-----------------------------------------------------------------------------
(* What Members do *)

\* openCandidateInquiry, under the lock of the Quest; one for each Worker,
\* and none again after it was closed.
OpenInquiry(w) ==
    /\ quest.status = "OPEN" /\ ~quest.hidden
    /\ w \notin Active
    /\ conversation[w] = "NONE"
    /\ conversation' = [conversation EXCEPT ![w] = "OPEN"]
    /\ UNCHANGED <<quest, assignment, membership, messages>>

\* getConversationMembership, of a current member
IsCurrentMember(m) == conversation[Work] # "NONE" /\ Current(m)

\* getCandidateInquiryMembership
InquiryMember(m, w) ==
    /\ conversation[w] = "OPEN" /\ m \in {Hirer, w}
    /\ quest.status = "OPEN" /\ ~quest.hidden

SentBefore(m, c, key) ==
    \E i \in 1..Len(messages[c]) : messages[c][i].sender = m /\ messages[c][i].key = key

RoomForMessage ==
    Cardinality({x \in Conversations \X (1..MaxMessages) : x[2] <= Len(messages[x[1]])}) < MaxMessages

\* The next sequence of the locked conversation, and the time it is stored.
StoreMessage(m, c, key) ==
    /\ RoomForMessage
    /\ messages' = [messages EXCEPT ![c] = Append(@,
          [sender |-> m, key |-> key, at |-> Len(@) + 1, hidden |-> FALSE])]
    /\ UNCHANGED <<quest, assignment, conversation, membership>>

\* Mutant: a repeated request is a message of its own.
SendWorkAgain(m, key) ==
    /\ IsCurrentMember(m)
    /\ conversation[Work] = "OPEN"
    /\ StoreMessage(m, Work, key)

\* A request that repeats a clientMessageId is answered with the first message,
\* one over the rate limit is refused: neither is a step.
SendWorkConversationMessage(m, key) ==
    /\ IsCurrentMember(m)
    /\ ~SentBefore(m, Work, key)
    /\ conversation[Work] = "OPEN"
    /\ StoreMessage(m, Work, key)

SendCandidateInquiryMessage(m, w, key) ==
    /\ InquiryMember(m, w)
    /\ ~SentBefore(m, w, key)
    /\ StoreMessage(m, w, key)

\* memberCanSeeMessage: within the Member's window, and hidden messages only
\* for who sent them.
Visible(m, i) ==
    LET x == messages[Work][i]
    IN  /\ membership[m].joinedAt # Never
        /\ membership[m].leftAt = Never \/ x.at <= membership[m].leftAt
        /\ ~x.hidden \/ x.sender = m
Readable(m) == {i \in 1..Len(messages[Work]) : Visible(m, i)}

\* What a report's decision does to a message (see Moderation).
HideOrRestore(i) ==
    /\ i \in 1..Now /\ messages[Work][i].sender # System
    /\ messages' = [messages EXCEPT ![Work][i].hidden = ~@]
    /\ UNCHANGED <<quest, assignment, conversation, membership>>

-----------------------------------------------------------------------------
QuestStep ==
    \/ \E S \in (SUBSET Workers) \ {{}} : AcceptWorkers(S)
    \/ StartUnderfilled \/ HideOrShowQuest
    \/ \E w \in Workers, at \in 0..Now : SettleOneWorker(w, at)
    \/ \E at \in 0..Now :
          CompleteQuest(at) \/ CancelQuest(at) \/ \E S \in SUBSET Workers : FailQuest(S, at)
    \/ \E w \in Workers : DecideFailedWork(w)

MemberStep ==
    \/ \E w \in Workers : OpenInquiry(w)
    \/ \E m \in ChatMembers, key \in ClientKeys :
          \/ SendWorkConversationMessage(m, key)
          \/ \E w \in Workers : SendCandidateInquiryMessage(m, w, key)

ChatStep ==
    \/ QuestStep \/ MemberStep
    \/ \E i \in 1..Now : HideOrRestore(i)

ChatSpec == ChatInit /\ [][ChatStep]_chatVars

-----------------------------------------------------------------------------
\* A Candidate Inquiry is open only while its Worker is not accepted and the
\* Quest still takes Workers; whoever is accepted, or loses his chance, has
\* no private conversation with the Hirer left.
InquiriesEndWithSelection ==
    \A w \in Workers : conversation[w] = "OPEN" => quest.status = "OPEN" /\ w \notin Active

\* While the Quest runs, its Workers are exactly the current members of the
\* Work Conversation, and it is open to them and the Hirer.  When the Quest has
\* ended nobody can write there and the last message says so; a Worker whose
\* work in a failed Quest is still to be decided can read all of it.
ChatFollowsRoster ==
    /\ quest.status # "ENDED" => {w \in Workers : Current(w)} = Active
    /\ quest.status # "ENDED" /\ Active # {} => conversation[Work] = "OPEN"
    /\ quest.status = "ENDED" => conversation[Work] # "OPEN"
    /\ \A w \in Active : Current(w) /\ Current(Hirer)
    /\ conversation[Work] = "READ_ONLY" <=>
          Now > 0 /\ messages[Work][Now].sender = System

\* Who has left a Work Conversation reads no message of a Member that is
\* stored later; only a hidden message may come back.
LeaversReadNothingNew ==
    [][\A m \in ChatMembers, i \in 1..Now' :
          /\ membership[m].leftAt # Never /\ i \notin Readable(m) /\ i \in Readable(m)'
          => \/ i <= Now /\ messages[Work][i].hidden
             \/ messages'[Work][i].sender = System]_chatVars

\* A client that sends a message again, not knowing that it was stored, adds
\* nothing, also after other messages and in the middle of a Quest change.
SentOnce ==
    \A c \in Conversations : \A i, j \in 1..Len(messages[c]) :
        /\ messages[c][i].sender # System
        /\ messages[c][i].sender = messages[c][j].sender
        /\ messages[c][i].key = messages[c][j].key
        => i = j
=============================================================================
