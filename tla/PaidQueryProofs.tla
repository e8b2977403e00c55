--------------------------- MODULE PaidQueryProofs ----------------------------
(***************************************************************************)
(* For every set of agents, requests and conversations, and any number of  *)
(* crashes: PaidQueryInv is inductive, so an answer is paid for or the     *)
(* money is back, a conversation holds complete turns of its owner only,   *)
(* and the paid endpoints implement Escrow.  Every step of a request brings*)
(* it nearer to its end, where its charge is settled unless a crash, a     *)
(* client that left or a deleted conversation kept it from that.           *)
(***************************************************************************)
EXTENDS PaidQuery, CreditStoreProofs, SequenceTheorems, FiniteSetTheorems

USE PaidQueryAssumption

LEMMA InitPaidQueryInv == Init => PaidQueryInv
<1> SUFFICES ASSUME Init PROVE PaidQueryInv
  OBVIOUS
<1>1. StoreInv
  BY StoreInitInv DEF Init
<1>2. messages \in [Conversations -> Seq(Message)]
  BY EmptySeq DEF Init
<1>3. TypeOK
  BY <1>1, <1>2 DEF Init, TypeOK, StoreInv, Labels
<1>4. ASSUME NEW q \in Queries PROVE BillInv(q) /\ TurnInv(q)
  BY DEF Init, BillInv, TurnInv, Unbilled, Billed, StreamSteps, Refunded
<1>5. ASSUME NEW c \in Conversations PROVE ConversationInv(c)
  BY DEF Init, ConversationInv, MessagesOf, QuestionsFirst
<1> QED
  BY <1>1, <1>3, <1>4, <1>5 DEF PaidQueryInv

-----------------------------------------------------------------------------
(***************************************************************************)
(* Steps of one request that leave the conversations alone.                *)
(***************************************************************************)

\* A request with a step of its own ahead of it is one of a known agent.
LEMMA Known ==
    ASSUME PaidQueryInv, NEW q \in Queries, pc[q] # "new"
    PROVE  who[q] \in rows /\ who[q] \in Agents
  BY DEF PaidQueryInv, TurnInv, TypeOK, StoreTypeOK

LEMMA MessagesAreTyped ==
    ASSUME PaidQueryInv, NEW c \in Conversations, NEW m \in MessagesOf(c)
    PROVE  m \in Message /\ m.query \in Queries
<1>1. messages[c] \in Seq(Message)
  BY DEF PaidQueryInv, TypeOK
<1>2. PICK i \in DOMAIN messages[c] : m = messages[c][i]
  BY DEF MessagesOf
<1>3. m \in Message
  BY <1>1, <1>2
<1> QED
  BY <1>3 DEF Message

\* The request that moves may be billed, refunded or logged; nothing else
\* about it or the others changes.
LEMMA MoveKeepsInv ==
    ASSUME PaidQueryInv, NEW q \in Queries, pc[q] # "new",
           NEW label \in Labels \ {"new"}, pc' = [pc EXCEPT ![q] = label],
           log' \in [Queries -> {"none", "cached", "failed", "success"}],
           debits' \in [Queries -> Nat], refunds' \in [Queries -> Nat],
           \A p \in Queries \ {q} :
               log'[p] = log[p] /\ debits'[p] = debits[p] /\ refunds'[p] = refunds[p],
           StoreInv', rows \subseteq rows',
           UNCHANGED <<turnVars, conv, who, streams, left, crashes>>,
           BillInv(q)', TurnInv(q)'
    PROVE  PaidQueryInv'
<1>1. TypeOK /\ pc'[q] = label /\ \A p \in Queries \ {q} : pc'[p] = pc[p]
  BY DEF PaidQueryInv, TypeOK
<1>2. TypeOK'
  BY <1>1 DEF TypeOK, StoreInv, turnVars
<1>3. ASSUME NEW p \in Queries, p # q PROVE BillInv(p)' /\ TurnInv(p)'
  <2>1. BillInv(p) /\ TurnInv(p) /\ pc'[p] = pc[p]
    BY <1>1, <1>3 DEF PaidQueryInv
  <2>2. log'[p] = log[p] /\ debits'[p] = debits[p] /\ refunds'[p] = refunds[p]
    BY <1>3
  <2> QED
    BY <2>1, <2>2 DEF BillInv, TurnInv, HasRow, MessagesOf, turnVars
<1>4. ASSUME NEW c \in Conversations PROVE ConversationInv(c)'
  <2>1. ConversationInv(c) /\ UNCHANGED <<owner, messages, minted, who>>
    BY DEF PaidQueryInv, turnVars
  <2>2. ASSUME NEW m \in MessagesOf(c) PROVE pc'[m.query] # "new"
    BY <1>1, <2>1, MessagesAreTyped DEF ConversationInv
  <2>3. MessagesOf(c)' = MessagesOf(c) /\ QuestionsFirst(c)' = QuestionsFirst(c)
    BY <2>1 DEF MessagesOf, QuestionsFirst
  <2> QED
    BY <2>1, <2>2, <2>3 DEF ConversationInv
<1> QED
  BY <1>2, <1>3, <1>4 DEF PaidQueryInv

\* The program counter alone moves.
LEMMA GotoKeepsInv ==
    ASSUME PaidQueryInv, NEW q \in Queries, pc[q] # "new",
           NEW label \in Labels \ {"new"}, Goto(q, label),
           UNCHANGED <<storeVars, turnVars, log, chargeVars, conv, callVars>>,
           BillInv(q)', TurnInv(q)'
    PROVE  PaidQueryInv'
<1>1. TypeOK /\ StoreInv /\ StoreInv'
  BY StutterStoreInv DEF PaidQueryInv
<1> QED
  BY <1>1, MoveKeepsInv DEF Goto, TypeOK, storeVars, turnVars, chargeVars, callVars

LEMMA GotoEffect ==
    ASSUME PaidQueryInv, NEW q \in Queries, NEW label, Goto(q, label)
    PROVE  pc'[q] = label /\ \A p \in Queries \ {q} : pc'[p] = pc[p]
  BY DEF Goto, PaidQueryInv, TypeOK

LEMMA ReadsKeepInv ==
    ASSUME PaidQueryInv, NEW q \in Queries,
           MissCache(q) \/ StartStream(q) \/ Generate(q) \/ StreamEvents(q) \/ CutOff(q)
    PROVE  PaidQueryInv'
<1>1. BillInv(q) /\ TurnInv(q) /\ pc[q] # "new"
  BY DEF PaidQueryInv, MissCache, StartStream, Generate, StreamEvents, CutOff, StreamSteps
<1>2. UNCHANGED <<storeVars, turnVars, log, chargeVars, conv, callVars>>
  BY DEF MissCache, StartStream, Generate, StreamEvents, CutOff
<1>3. ASSUME NEW label \in {"debit", "events", "cleanup", "refund_stream", "cut_off",
                            "refund_app_error", "refund_exception", "log_success",
                            "save_question"},
             Goto(q, label),
             label = "debit" <=> pc[q] = "lookup",
             pc[q] = "lookup" \/ pc[q] \in Billed,
             label = "log_success" => conv[q] = Nobody \/ pc[q] = "log_success",
             label = "save_question" => conv[q] # Nobody,
             pc[q] \notin {"new", "conversation"}
      PROVE  PaidQueryInv'
  <2>1. label \in Labels \ {"new"} /\ pc'[q] = label
    BY <1>3, GotoEffect DEF Labels, StreamSteps, Ended
  <2>2. BillInv(q)'
    BY <1>1, <1>2, <1>3, <2>1
    DEF BillInv, Unbilled, Billed, StreamSteps, Refunded, chargeVars
  <2>3. TurnInv(q)'
    BY <1>1, <1>2, <1>3, <2>1
    DEF TurnInv, HasRow, MessagesOf, turnVars, callVars, storeVars, Billed, StreamSteps
  <2> QED
    BY <1>1, <1>2, <1>3, <2>1, <2>2, <2>3, GotoKeepsInv
<1>4. CASE MissCache(q)
  BY <1>3, <1>4 DEF MissCache
<1>5. CASE StartStream(q)
  BY <1>3, <1>5 DEF StartStream, Billed, StreamSteps
<1>6. CASE Generate(q)
  BY <1>3, <1>6 DEF Generate, SaveTurn, Billed
<1>7. CASE StreamEvents(q)
  BY <1>3, <1>7 DEF StreamEvents, SaveTurn, Billed, StreamSteps
<1>8. CASE CutOff(q)
  BY <1>3, <1>8 DEF CutOff, Billed, StreamSteps
<1> QED
  BY <1>4, <1>5, <1>6, <1>7, <1>8

LEMMA LogsKeepInv ==
    ASSUME PaidQueryInv, NEW q \in Queries,
           AnswerFromCache(q) \/ LogFailure(q) \/ LogSuccess(q)
    PROVE  PaidQueryInv'
<1>1. TypeOK /\ StoreInv' /\ BillInv(q) /\ TurnInv(q)
  BY StutterStoreInv DEF PaidQueryInv, AnswerFromCache, LogFailure, LogSuccess
<1>2. UNCHANGED <<storeVars, turnVars, chargeVars, conv, callVars>>
  BY DEF AnswerFromCache, LogFailure, LogSuccess
<1>3. ASSUME NEW entry \in {"cached", "failed", "success"}, log' = [log EXCEPT ![q] = entry],
             NEW label \in {"answered", "failed"}, Goto(q, label),
             pc[q] \notin {"new", "conversation", "lost"}, BillInv(q)', TurnInv(q)'
      PROVE  PaidQueryInv'
  BY <1>1, <1>2, <1>3, MoveKeepsInv
  DEF Goto, Labels, Ended, TypeOK, storeVars, chargeVars, callVars
<1>4. CASE AnswerFromCache(q)
  <2>1. pc[q] = "lookup" /\ pc'[q] = "answered" /\ log'[q] = "cached"
    BY <1>1, <1>4, GotoEffect DEF AnswerFromCache, TypeOK
  <2>2. BillInv(q)' /\ TurnInv(q)'
    BY <1>1, <1>2, <2>1 DEF BillInv, TurnInv, Unbilled, Billed, StreamSteps, Refunded,
       chargeVars, turnVars, callVars, storeVars
  <2> QED
    BY <1>3, <1>4, <2>1, <2>2 DEF AnswerFromCache
<1>5. CASE LogFailure(q)
  <2>1. pc[q] = "log_failure" /\ pc'[q] = "failed" /\ log'[q] = "failed"
    BY <1>1, <1>5, GotoEffect DEF LogFailure, TypeOK
  <2>2. BillInv(q)' /\ TurnInv(q)'
    BY <1>1, <1>2, <2>1 DEF BillInv, TurnInv, Unbilled, Billed, StreamSteps, Refunded,
       chargeVars, turnVars, callVars, storeVars
  <2> QED
    BY <1>3, <1>5, <2>1, <2>2 DEF LogFailure
<1>6. CASE LogSuccess(q)
  <2>1. pc[q] = "log_success" /\ pc'[q] = "answered" /\ log'[q] = "success"
    BY <1>1, <1>6, GotoEffect DEF LogSuccess, TypeOK
  <2>2. BillInv(q)' /\ TurnInv(q)'
    BY <1>1, <1>2, <2>1 DEF BillInv, TurnInv, Unbilled, Billed, StreamSteps, Refunded,
       chargeVars, turnVars, callVars, storeVars, HasRow, MessagesOf
  <2> QED
    BY <1>3, <1>6, <2>1, <2>2 DEF LogSuccess
<1> QED
  BY <1>4, <1>5, <1>6

\* Given back to the agent that was billed, while it is known.
LEMMA GiveBackEffect ==
    ASSUME PaidQueryInv, NEW q \in Queries, pc[q] # "new", GiveBack(q)
    PROVE  /\ StoreInv' /\ rows' = rows
           /\ refunds' = [refunds EXCEPT ![q] = refunds[q] + 1]
           /\ UNCHANGED <<debits, turnVars>>
<1>1. StoreInv /\ who[q] \in rows
  BY Known DEF PaidQueryInv
<1> QED
  BY <1>1, GrantCreditsStoreInv DEF GiveBack, RefundCredits, GrantCredits

LEMMA RefundsKeepInv ==
    ASSUME PaidQueryInv, NEW q \in Queries,
           RefundFailure(q) \/ RefundStream(q) \/ CleanUp(q)
    PROVE  PaidQueryInv'
<1>1. TypeOK /\ BillInv(q) /\ TurnInv(q) /\ pc[q] # "new"
  BY DEF PaidQueryInv, RefundFailure, RefundStream, CleanUp
<1>2. GiveBack(q) /\ UNCHANGED <<log, conv, callVars>>
  BY DEF RefundFailure, RefundStream, CleanUp
<1>3. /\ StoreInv' /\ rows' = rows
      /\ refunds' = [refunds EXCEPT ![q] = refunds[q] + 1]
      /\ UNCHANGED <<debits, turnVars>>
  BY <1>1, <1>2, GiveBackEffect
<1>4. refunds' \in [Queries -> Nat] /\ refunds'[q] = refunds[q] + 1
      /\ \A p \in Queries \ {q} : refunds'[p] = refunds[p]
  BY <1>1, <1>3 DEF TypeOK
<1>5. pc[q] \in Billed
  BY DEF RefundFailure, RefundStream, CleanUp, Billed, StreamSteps
<1>6. PICK label \in {"log_failure", "failed", "aborted"} : Goto(q, label)
  BY DEF RefundFailure, RefundStream, CleanUp
<1>7. pc'[q] = label /\ label \in Labels \ {"new"}
  BY <1>6, GotoEffect DEF Labels, Ended
<1>8. BillInv(q)'
  BY <1>1, <1>2, <1>3, <1>4, <1>5, <1>7
  DEF BillInv, Unbilled, Billed, StreamSteps, Refunded
<1>9. TurnInv(q)'
  BY <1>1, <1>2, <1>3, <1>5, <1>7
  DEF TurnInv, HasRow, MessagesOf, turnVars, callVars, Billed, StreamSteps
<1> QED
  BY <1>1, <1>2, <1>3, <1>4, <1>6, <1>7, <1>8, <1>9, MoveKeepsInv DEF Goto, TypeOK, callVars

LEMMA DebitKeepsInv ==
    ASSUME PaidQueryInv, NEW q \in Queries, Debit(q)
    PROVE  PaidQueryInv'
<1>1. TypeOK /\ StoreInv /\ BillInv(q) /\ TurnInv(q) /\ pc[q] = "debit"
  BY DEF PaidQueryInv, Debit
<1>2. UNCHANGED <<turnVars, log, refunds, conv, callVars>>
  BY DEF Debit
<1>3. CASE /\ ConsumeCredits(who[q], 1, 1)
           /\ debits' = [debits EXCEPT ![q] = debits[q] + 1]
           /\ Goto(q, IF q \in streams THEN "stream" ELSE "generate")
  <2>1. StoreInv' /\ rows' = rows
    BY <1>1, <1>3, ConsumeCreditsStoreInv DEF ConsumeCredits
  <2>2. debits' \in [Queries -> Nat] /\ debits'[q] = debits[q] + 1
        /\ \A p \in Queries \ {q} : debits'[p] = debits[p]
    BY <1>1, <1>3 DEF TypeOK
  <2>3. PICK label \in {"stream", "generate"} : Goto(q, label)
    BY <1>3
  <2>4. pc'[q] = label /\ label \in Labels \ {"new"}
    BY <2>3, GotoEffect DEF Labels, StreamSteps
  <2>5. BillInv(q)'
    BY <1>1, <1>2, <2>2, <2>4 DEF BillInv, Unbilled, Billed, StreamSteps, Refunded
  <2>6. TurnInv(q)'
    BY <1>1, <1>2, <2>1, <2>4 DEF TurnInv, HasRow, MessagesOf, turnVars, callVars
  <2> QED
    BY <1>1, <1>2, <2>1, <2>2, <2>3, <2>4, <2>5, <2>6, MoveKeepsInv
    DEF Goto, TypeOK, callVars
<1>4. CASE Goto(q, "refused") /\ UNCHANGED <<storeVars, debits>>
  <2>1. pc'[q] = "refused" /\ "refused" \in Labels \ {"new"}
    BY <1>4, GotoEffect DEF Labels, Ended
  <2>2. BillInv(q)'
    BY <1>1, <1>2, <1>4, <2>1 DEF BillInv, Unbilled, Billed, StreamSteps, Refunded
  <2>3. TurnInv(q)'
    BY <1>1, <1>2, <1>4, <2>1
    DEF TurnInv, HasRow, MessagesOf, turnVars, callVars, storeVars
  <2> QED
    BY <1>1, <1>2, <1>4, <2>1, <2>2, <2>3, GotoKeepsInv DEF chargeVars
<1> QED
  BY <1>3, <1>4 DEF Debit

-----------------------------------------------------------------------------
(***************************************************************************)
(* Steps on the conversations.                                             *)
(***************************************************************************)

\* A fresh id is nobody's conversation_id and has no rows, and an id that was
\* given out is never given out again.
LEMMA EnsureConversationKeepsInv ==
    ASSUME PaidQueryInv, NEW q \in Queries, EnsureConversation(q)
    PROVE  PaidQueryInv'
<1>1. TypeOK /\ StoreInv /\ StoreInv' /\ BillInv(q) /\ TurnInv(q) /\ pc[q] = "conversation"
  BY StutterStoreInv DEF PaidQueryInv, EnsureConversation
<1>2. /\ pc' = [pc EXCEPT ![q] = "lookup"]
      /\ UNCHANGED <<storeVars, messages, log, chargeVars, callVars>>
  BY DEF EnsureConversation, Goto
<1>3. /\ pc'[q] = "lookup" /\ \A p \in Queries \ {q} : pc'[p] = pc[p]
      /\ who[q] \in Agents /\ who[q] # Nobody
  BY <1>1, <1>2, Known DEF TypeOK
<1>4. CASE KeepsConversation(q) /\ UNCHANGED <<minted, owner, conv>>
  <2>1. "lookup" \in Labels \ {"new"}
    BY DEF Labels
  <2>2. BillInv(q)'
    BY <1>1, <1>2, <1>3 DEF BillInv, Unbilled, Billed, StreamSteps, Refunded, chargeVars
  <2>3. TurnInv(q)'
    BY <1>1, <1>2, <1>3, <1>4
    DEF TurnInv, KeepsConversation, HasRow, MessagesOf, callVars, storeVars
  <2> QED
    BY <1>1, <1>2, <1>4, <2>1, <2>2, <2>3, GotoKeepsInv DEF Goto, turnVars
<1>5. ASSUME NEW c \in Conversations \ minted, minted' = minted \cup {c},
             owner' = [owner EXCEPT ![c] = who[q]], conv' = [conv EXCEPT ![q] = c]
      PROVE  PaidQueryInv'
  <2>1. /\ owner'[c] = who[q] /\ conv'[q] = c /\ c # Nobody
        /\ \A d \in Conversations \ {c} : owner'[d] = owner[d]
        /\ \A p \in Queries \ {q} : conv'[p] = conv[p]
        /\ owner[c] = Nobody /\ messages[c] = <<>>
    BY <1>1, <1>5 DEF TypeOK, PaidQueryInv, ConversationInv
  <2>2. TypeOK'
    BY <1>1, <1>2, <1>3, <1>5 DEF TypeOK, StoreInv, storeVars, chargeVars, callVars, Labels
  <2>3. ASSUME NEW p \in Queries PROVE BillInv(p)' /\ TurnInv(p)'
    <3>1. BillInv(p) /\ TurnInv(p)
      BY DEF PaidQueryInv
    <3>2. CASE p = q
      <4>1. BillInv(q)'
        BY <1>1, <1>2, <1>3
        DEF BillInv, Unbilled, Billed, StreamSteps, Refunded, chargeVars
      <4>2. TurnInv(q)'
        BY <1>1, <1>2, <1>3, <1>5, <2>1 DEF TurnInv, callVars, storeVars
      <4> QED
        BY <3>2, <4>1, <4>2
    <3>3. CASE p # q
      <4>1. BillInv(p)'
        BY <1>2, <1>3, <3>1, <3>3 DEF BillInv, chargeVars
      <4>2. conv[p] # Nobody => owner'[conv[p]] = owner[conv[p]] /\ conv[p] \in minted'
        <5>1. conv[p] # Nobody => conv[p] \in Conversations \ {c}
          BY <1>1, <1>5, <3>1 DEF TurnInv, TypeOK
        <5> QED
          BY <1>5, <2>1, <3>1, <5>1 DEF TurnInv
      <4>3. /\ conv'[p] = conv[p] /\ pc'[p] = pc[p]
            /\ UNCHANGED <<log, who, rows, messages>>
        BY <1>2, <1>3, <2>1, <3>3 DEF callVars, storeVars
      <4>4. TurnInv(p)'
        BY <3>1, <4>2, <4>3 DEF TurnInv, HasRow, MessagesOf
      <4> QED
        BY <4>1, <4>4
    <3> QED
      BY <3>2, <3>3
  <2>4. ASSUME NEW d \in Conversations PROVE ConversationInv(d)'
    <3>1. ConversationInv(d) /\ UNCHANGED <<messages, who>>
      BY <1>2 DEF PaidQueryInv, callVars
    <3>2. MessagesOf(d)' = MessagesOf(d) /\ QuestionsFirst(d)' = QuestionsFirst(d)
      BY <3>1 DEF MessagesOf, QuestionsFirst
    <3>3. CASE d = c
      <4>1. MessagesOf(c) = {}
        BY <2>1 DEF MessagesOf
      <4> QED
        BY <1>3, <1>5, <2>1, <3>1, <3>2, <3>3, <4>1 DEF ConversationInv
    <3>4. CASE d # c
      <4>1. ASSUME NEW m \in MessagesOf(d) PROVE pc'[m.query] # "new"
        BY <1>3, <3>1, MessagesAreTyped DEF ConversationInv
      <4> QED
        BY <1>5, <2>1, <3>1, <3>2, <3>4, <4>1 DEF ConversationInv
    <3> QED
      BY <3>3, <3>4
  <2> QED
    BY <1>1, <2>2, <2>3, <2>4 DEF PaidQueryInv
<1> QED
  BY <1>4, <1>5 DEF EnsureConversation

\* What add_message does to the rows of a conversation.
LEMMA AppendedRows ==
    ASSUME PaidQueryInv, NEW c \in Conversations, NEW m \in Message,
           messages' = [messages EXCEPT ![c] = Append(messages[c], m)]
    PROVE  /\ messages' \in [Conversations -> Seq(Message)]
           /\ MessagesOf(c)' = MessagesOf(c) \cup {m}
           /\ m.role = "user" \/ [role |-> "user", query |-> m.query] \in MessagesOf(c)
                  => QuestionsFirst(c)'
           /\ \A d \in Conversations \ {c} :
                  MessagesOf(d)' = MessagesOf(d) /\ QuestionsFirst(d)' = QuestionsFirst(d)
           /\ \A d \in Conversations : MessagesOf(d) \subseteq MessagesOf(d)'
<1>0. PICK old, new : old = messages[c] /\ new = Append(old, m)
  OBVIOUS
<1>1. messages \in [Conversations -> Seq(Message)] /\ old \in Seq(Message) /\ QuestionsFirst(c)
  BY <1>0 DEF PaidQueryInv, TypeOK, ConversationInv
<1>2. /\ new \in Seq(Message) /\ Len(new) = Len(old) + 1 /\ Len(old) \in Nat
      /\ DOMAIN old = 1..Len(old) /\ DOMAIN new = 1..(Len(old) + 1)
      /\ \A i \in 1..Len(old) : new[i] = old[i]
      /\ new[Len(old) + 1] = m
  <2>1. /\ new \in Seq(Message) /\ Len(new) = Len(old) + 1
        /\ \A i \in 1..Len(old) : new[i] = old[i]
        /\ new[Len(old) + 1] = m
    BY <1>0, <1>1, AppendProperties
  <2>2. Len(old) \in Nat /\ DOMAIN old = 1..Len(old)
    BY <1>1, LenProperties
  <2>3. DOMAIN new = 1..Len(new)
    BY <2>1, LenProperties
  <2> QED
    BY <2>1, <2>2, <2>3
<1>3. messages'[c] = new /\ \A d \in Conversations \ {c} : messages'[d] = messages[d]
  BY <1>0, <1>1
<1>4. messages' \in [Conversations -> Seq(Message)]
  BY <1>0, <1>1, <1>2
<1>5. MessagesOf(c)' = {new[i] : i \in DOMAIN new} /\ MessagesOf(c) = {old[i] : i \in DOMAIN old}
  BY <1>0, <1>3 DEF MessagesOf
<1>6. MessagesOf(c)' = MessagesOf(c) \cup {m}
  BY <1>2, <1>5
<1>7. ASSUME m.role = "user" \/ [role |-> "user", query |-> m.query] \in MessagesOf(c)
      PROVE  QuestionsFirst(c)'
  <2> SUFFICES ASSUME NEW j \in DOMAIN messages'[c], messages'[c][j].role = "assistant"
               PROVE  \E i \in 1..(j - 1) :
                          messages'[c][i] = [role |-> "user", query |-> messages'[c][j].query]
    BY DEF QuestionsFirst
  <2>0. j \in DOMAIN new /\ messages'[c] = new /\ new[j].role = "assistant"
    BY <1>3
  <2> SUFFICES \E i \in 1..(j - 1) : new[i] = [role |-> "user", query |-> new[j].query]
    BY <2>0
  <2>1. CASE j \in 1..Len(old)
    <3>1. new[j] = old[j] /\ j \in DOMAIN old
      BY <1>2, <2>1
    <3>2. PICK i \in 1..(j - 1) : old[i] = [role |-> "user", query |-> old[j].query]
      BY <1>0, <1>1, <2>0, <3>1 DEF QuestionsFirst
    <3>3. new[i] = old[i]
      BY <1>2, <2>1
    <3> QED
      BY <3>1, <3>2, <3>3
  <2>2. CASE j = Len(old) + 1
    <3>1. new[j] = m
      BY <1>2, <2>2
    <3>2. PICK i \in DOMAIN old : old[i] = [role |-> "user", query |-> m.query]
      BY <1>5, <1>7, <2>0, <3>1
    <3>3. i \in 1..(j - 1) /\ new[i] = old[i]
      BY <1>2, <2>2
    <3> QED
      BY <3>1, <3>2, <3>3
  <2> QED
    BY <1>2, <2>0, <2>1, <2>2
<1>8. \A d \in Conversations \ {c} :
          MessagesOf(d)' = MessagesOf(d) /\ QuestionsFirst(d)' = QuestionsFirst(d)
  BY <1>3 DEF MessagesOf, QuestionsFirst
<1>9. \A d \in Conversations : MessagesOf(d) \subseteq MessagesOf(d)'
  BY <1>6, <1>8
<1> QED
  BY <1>4, <1>6, <1>7, <1>8, <1>9

\* The two rows of a turn: the question, then the answer, in a conversation
\* that was the agent's own when the request began and can be no one else's.
LEMMA SavesKeepInv ==
    ASSUME PaidQueryInv, NEW q \in Queries, SaveQuestion(q) \/ SaveAnswer(q)
    PROVE  PaidQueryInv'
<1>1. /\ TypeOK /\ StoreInv /\ StoreInv' /\ BillInv(q) /\ TurnInv(q)
      /\ pc[q] \in {"save_question", "save_answer"}
      /\ UNCHANGED <<storeVars, minted, owner, log, chargeVars, conv, callVars>>
  BY StutterStoreInv DEF PaidQueryInv, SaveQuestion, SaveAnswer, AddMessage
<1>2. PICK c \in Conversations : c = conv[q] /\ c # Nobody /\ who[q] \in rows
  BY <1>1 DEF TurnInv, TypeOK
<1>3. CASE Goto(q, "save_error") /\ UNCHANGED messages
  <2>1. pc'[q] = "save_error" /\ "save_error" \in Labels \ {"new"}
    BY <1>3, GotoEffect DEF Labels, Ended
  <2>2. BillInv(q)'
    BY <1>1, <2>1 DEF BillInv, Unbilled, Billed, StreamSteps, Refunded, chargeVars
  <2>3. TurnInv(q)'
    BY <1>1, <1>3, <2>1 DEF TurnInv, HasRow, MessagesOf, callVars, storeVars
  <2> QED
    BY <1>1, <1>3, <2>1, <2>2, <2>3, GotoKeepsInv DEF turnVars
<1>4. ASSUME NEW role \in {"user", "assistant"}, NEW label \in {"save_answer", "log_success"},
             role = "user" <=> label = "save_answer",
             role = "user" <=> pc[q] = "save_question",
             owner[c] # Nobody, Goto(q, label),
             messages' = [messages EXCEPT ![c] = Append(messages[c],
                                                        [role |-> role, query |-> q])]
      PROVE  PaidQueryInv'
  <2> DEFINE m == [role |-> role, query |-> q]
  <2>1. m \in Message /\ m.role = role /\ m.query = q
    BY DEF Message
  <2>2. role = "assistant" => [role |-> "user", query |-> q] \in MessagesOf(c)
    BY <1>1, <1>2, <1>4 DEF TurnInv, HasRow
  <2>3. messages' = [messages EXCEPT ![c] = Append(messages[c], m)]
    BY <1>4
  <2> HIDE DEF m
  <2>4. /\ messages' \in [Conversations -> Seq(Message)]
        /\ MessagesOf(c)' = MessagesOf(c) \cup {m}
        /\ QuestionsFirst(c)'
        /\ \A d \in Conversations \ {c} :
               MessagesOf(d)' = MessagesOf(d) /\ QuestionsFirst(d)' = QuestionsFirst(d)
        /\ \A d \in Conversations : MessagesOf(d) \subseteq MessagesOf(d)'
    BY <1>2, <2>1, <2>2, <2>3, AppendedRows
  <2>5. /\ pc'[q] = label /\ \A p \in Queries \ {q} : pc'[p] = pc[p]
        /\ pc' \in [Queries -> Labels] /\ pc' = [pc EXCEPT ![q] = label]
    BY <1>1, <1>4, GotoEffect DEF Goto, Labels, StreamSteps, TypeOK
  <2>6. TypeOK'
    BY <1>1, <2>4, <2>5 DEF TypeOK, StoreInv, chargeVars, callVars
  <2>7. ASSUME NEW p \in Queries PROVE BillInv(p)' /\ TurnInv(p)'
    <3>1. BillInv(p) /\ TurnInv(p)
      BY DEF PaidQueryInv
    <3>2. CASE p = q
      <4>1. BillInv(q)'
        BY <1>1, <1>4, <2>5
        DEF BillInv, Unbilled, Billed, StreamSteps, Refunded, chargeVars
      <4>2. HasRow(c, role, q)'
        BY <1>1, <2>4 DEF HasRow, m
      <4>3. TurnInv(q)'
        BY <1>1, <1>2, <1>4, <2>5, <4>2 DEF TurnInv, HasRow, callVars, storeVars
      <4> QED
        BY <3>2, <4>1, <4>3
    <3>3. CASE p # q
      <4>1. BillInv(p)'
        BY <1>1, <2>5, <3>1, <3>3 DEF BillInv, chargeVars
      <4>2. /\ conv'[p] = conv[p] /\ pc'[p] = pc[p]
            /\ UNCHANGED <<log, who, rows, owner, minted>>
        BY <1>1, <2>5, <3>3 DEF callVars, storeVars
      <4>3. CASE conv[p] = Nobody
        BY <3>1, <4>1, <4>2, <4>3 DEF TurnInv
      <4>4. ASSUME NEW d \in Conversations, d = conv[p] PROVE TurnInv(p)'
        <5>1. conv[p] = d /\ conv'[p] = d /\ MessagesOf(d) \subseteq MessagesOf(d)'
          BY <2>4, <4>2, <4>4
        <5>2. ASSUME NEW r \in {"user", "assistant"}, HasRow(conv[p], r, p)
              PROVE  HasRow(conv[p], r, p)'
          <6>1. [role |-> r, query |-> p] \in MessagesOf(d)
            BY <5>1, <5>2 DEF HasRow
          <6>2. PICK i \in DOMAIN messages'[d] : messages'[d][i] = [role |-> r, query |-> p]
            BY <5>1, <6>1 DEF MessagesOf
          <6>3. i \in DOMAIN messages'[conv'[p]] /\ messages'[conv'[p]][i] = [role |-> r, query |-> p]
            BY <5>1, <6>2
          <6> QED
            BY <6>3 DEF HasRow, MessagesOf
        <5>3. owner'[conv'[p]] = owner[conv[p]] /\ who'[p] = who[p] /\ log'[p] = log[p]
          BY <4>2
        <5>4. conv'[p] # Nobody => conv'[p] \in minted'
          BY <3>1, <4>2 DEF TurnInv
        <5>5. pc'[p] # "new" => who'[p] \in rows'
          BY <3>1, <4>2 DEF TurnInv
        <5>6. pc[p] = "save_answer" /\ conv[p] # Nobody /\ owner[conv[p]] # Nobody
                  => HasRow(conv[p], "user", p)'
          BY <3>1, <5>2 DEF TurnInv
        <5>7. (pc[p] = "log_success" \/ (pc[p] = "answered" /\ log[p] = "success"))
                  /\ conv[p] # Nobody /\ owner[conv[p]] # Nobody
                  => HasRow(conv[p], "assistant", p)'
          BY <3>1, <5>2 DEF TurnInv
        <5> QED
          BY <3>1, <4>2, <5>3, <5>4, <5>5, <5>6, <5>7 DEF TurnInv
      <4> QED
        BY <1>1, <4>1, <4>3, <4>4 DEF TypeOK
    <3> QED
      BY <3>2, <3>3
  <2>8. ASSUME NEW d \in Conversations PROVE ConversationInv(d)'
    <3>1. ConversationInv(d) /\ UNCHANGED <<owner, minted, who>>
      BY <1>1 DEF PaidQueryInv, callVars
    <3>2. ASSUME NEW n \in MessagesOf(d) PROVE pc'[n.query] # "new"
      BY <2>5, <3>1, <1>4, MessagesAreTyped DEF ConversationInv
    <3>3. CASE d = c
      <4>1. owner[c] = who[q]
        BY <1>1, <1>2, <1>4 DEF TurnInv
      <4>2. pc'[m.query] # "new" /\ who[m.query] = owner[c]
        BY <1>4, <2>1, <2>5, <4>1
      <4>3. \A n \in MessagesOf(c)' : pc'[n.query] # "new" /\ who[n.query] = owner[c]
        BY <2>4, <3>1, <3>2, <3>3, <4>2 DEF ConversationInv
      <4> QED
        BY <1>4, <2>4, <3>1, <3>3, <4>3 DEF ConversationInv
    <3>4. CASE d # c
      <4>1. messages'[d] = messages[d]
        BY <1>1, <2>3, <3>4 DEF TypeOK
      <4> QED
        BY <2>4, <3>1, <3>2, <3>4, <4>1 DEF ConversationInv
    <3> QED
      BY <3>3, <3>4
  <2> QED
    BY <1>1, <2>6, <2>7, <2>8 DEF PaidQueryInv
<1>5. CASE SaveQuestion(q)
  BY <1>2, <1>3, <1>4, <1>5 DEF SaveQuestion, AddMessage
<1>6. CASE SaveAnswer(q)
  BY <1>2, <1>3, <1>4, <1>6 DEF SaveAnswer, AddMessage
<1> QED
  BY <1>5, <1>6

\* What is deleted is gone for every request; the id is not given out again.
LEMMA DeleteKeepsInv ==
    ASSUME PaidQueryInv, NEW c \in Conversations, DeleteConversation(c)
    PROVE  PaidQueryInv'
<1>1. TypeOK /\ StoreInv /\ StoreInv' /\ c # Nobody
  BY StutterStoreInv DEF PaidQueryInv, DeleteConversation
<1>2. /\ owner' = [owner EXCEPT ![c] = Nobody]
      /\ messages' = [messages EXCEPT ![c] = <<>>]
      /\ UNCHANGED <<storeVars, minted, log, chargeVars, pc, conv, callVars>>
  BY DEF DeleteConversation
<1>3. /\ owner'[c] = Nobody /\ messages'[c] = <<>>
      /\ \A d \in Conversations \ {c} : owner'[d] = owner[d] /\ messages'[d] = messages[d]
  BY <1>1, <1>2 DEF TypeOK
<1>4. TypeOK'
  <2>1. messages' \in [Conversations -> Seq(Message)]
    BY <1>1, <1>2, EmptySeq DEF TypeOK
  <2> QED
    BY <1>1, <1>2, <2>1 DEF TypeOK, StoreInv, chargeVars, callVars
<1>5. ASSUME NEW p \in Queries PROVE BillInv(p)' /\ TurnInv(p)'
  <2>1. BillInv(p) /\ TurnInv(p)
    BY DEF PaidQueryInv
  <2>2. BillInv(p)'
    BY <1>2, <2>1 DEF BillInv, chargeVars
  <2>3. UNCHANGED <<pc, conv, log, who, rows, minted>>
    BY <1>2 DEF callVars, storeVars
  <2>4. CASE conv[p] \in {c, Nobody}
    BY <1>3, <2>1, <2>2, <2>3, <2>4 DEF TurnInv
  <2>5. ASSUME NEW d \in Conversations \ {c}, conv[p] = d PROVE TurnInv(p)'
    <3>1. owner'[conv'[p]] = owner[conv[p]] /\ messages'[conv'[p]] = messages[conv[p]]
      BY <1>3, <2>3, <2>5
    <3> QED
      BY <2>1, <2>3, <3>1 DEF TurnInv, HasRow, MessagesOf
  <2> QED
    BY <1>1, <2>2, <2>4, <2>5 DEF TypeOK
<1>6. ASSUME NEW d \in Conversations PROVE ConversationInv(d)'
  <2>1. ConversationInv(d) /\ UNCHANGED <<minted, pc, who>>
    BY <1>2 DEF PaidQueryInv, callVars
  <2>2. CASE d = c
    BY <1>3, <2>2 DEF ConversationInv, MessagesOf, QuestionsFirst
  <2>3. CASE d # c
    <3>1. owner'[d] = owner[d] /\ messages'[d] = messages[d]
      BY <1>3, <2>3
    <3>2. MessagesOf(d)' = MessagesOf(d) /\ QuestionsFirst(d)' = QuestionsFirst(d)
      BY <3>1 DEF MessagesOf, QuestionsFirst
    <3> QED
      BY <2>1, <3>1, <3>2 DEF ConversationInv
  <2> QED
    BY <2>2, <2>3
<1> QED
  BY <1>1, <1>4, <1>5, <1>6 DEF PaidQueryInv

-----------------------------------------------------------------------------
(***************************************************************************)
(* Agents, clients and the server.                                         *)
(***************************************************************************)

\* A step that touches no conversation and no request but the counts of those
\* that left and of the crashes.
LEMMA RegisterKeepsInv ==
    ASSUME PaidQueryInv, NEW a \in Agents, Register(a)
    PROVE  PaidQueryInv'
<1>1. TypeOK /\ StoreInv /\ StoreInv' /\ rows \subseteq rows'
  BY OpenAccountStoreInv DEF PaidQueryInv, Register, OpenAccount
<1>2. UNCHANGED <<turnVars, log, chargeVars, pc, conv, callVars>>
  BY DEF Register
<1>3. TypeOK'
  BY <1>1, <1>2 DEF TypeOK, StoreInv, turnVars, chargeVars, callVars
<1>4. ASSUME NEW p \in Queries PROVE BillInv(p)' /\ TurnInv(p)'
  <2>1. BillInv(p) /\ TurnInv(p)
    BY DEF PaidQueryInv
  <2> QED
    BY <1>1, <1>2, <2>1
    DEF BillInv, TurnInv, HasRow, MessagesOf, turnVars, chargeVars, callVars
<1>5. ASSUME NEW d \in Conversations PROVE ConversationInv(d)'
  <2>1. ConversationInv(d)
    BY DEF PaidQueryInv
  <2> QED
    BY <1>2, <2>1 DEF ConversationInv, MessagesOf, QuestionsFirst, turnVars, callVars
<1> QED
  BY <1>1, <1>3, <1>4, <1>5 DEF PaidQueryInv

LEMMA ClientLeavesKeepsInv ==
    ASSUME PaidQueryInv, NEW q \in Queries, ClientLeaves(q)
    PROVE  PaidQueryInv'
<1>1. TypeOK /\ StoreInv /\ StoreInv'
  BY StutterStoreInv DEF PaidQueryInv, ClientLeaves
<1>2. /\ left' = left \cup {q} /\ q \in streams
      /\ UNCHANGED <<storeVars, turnVars, log, chargeVars, pc, conv, who, streams, crashes>>
  BY DEF ClientLeaves
<1>3. TypeOK'
  BY <1>1, <1>2 DEF TypeOK, StoreInv, turnVars, chargeVars
<1>4. ASSUME NEW p \in Queries PROVE BillInv(p)' /\ TurnInv(p)'
  <2>1. BillInv(p) /\ TurnInv(p)
    BY DEF PaidQueryInv
  <2> QED
    BY <1>2, <2>1
    DEF BillInv, TurnInv, HasRow, MessagesOf, turnVars, chargeVars, storeVars
<1>5. ASSUME NEW d \in Conversations PROVE ConversationInv(d)'
  <2>1. ConversationInv(d)
    BY DEF PaidQueryInv
  <2> QED
    BY <1>2, <2>1 DEF ConversationInv, MessagesOf, QuestionsFirst, turnVars
<1> QED
  BY <1>1, <1>3, <1>4, <1>5 DEF PaidQueryInv

\* Before it is received a request is in no conversation's rows.
LEMMA ReceiveKeepsInv ==
    ASSUME PaidQueryInv, NEW q \in Queries, NEW a \in Agents, NEW stream \in BOOLEAN,
           NEW remember \in BOOLEAN, NEW c \in minted \cup {Nobody},
           Receive(q, a, stream, remember, c)
    PROVE  PaidQueryInv'
<1>1. TypeOK /\ StoreInv /\ StoreInv' /\ BillInv(q) /\ pc[q] = "new" /\ a \in rows
  BY StutterStoreInv DEF PaidQueryInv, Receive
<1>2. PICK label \in {"conversation", "lookup"}, d \in minted \cup {Nobody} :
          /\ pc' = [pc EXCEPT ![q] = label] /\ conv' = [conv EXCEPT ![q] = d]
          /\ label = "lookup" => d = Nobody
  BY DEF Receive, Goto
<1>3. /\ who' = [who EXCEPT ![q] = a]
      /\ streams' \in SUBSET (streams \cup {q}) /\ streams \subseteq streams'
      /\ UNCHANGED <<storeVars, turnVars, log, chargeVars, left, crashes>>
  BY DEF Receive
<1>4. /\ pc'[q] = label /\ conv'[q] = d /\ who'[q] = a
      /\ \A p \in Queries \ {q} : pc'[p] = pc[p] /\ conv'[p] = conv[p] /\ who'[p] = who[p]
  BY <1>1, <1>2, <1>3 DEF TypeOK
<1>5. TypeOK'
  BY <1>1, <1>2, <1>3 DEF TypeOK, StoreInv, turnVars, chargeVars, Labels
<1>6. ASSUME NEW p \in Queries PROVE BillInv(p)' /\ TurnInv(p)'
  <2>1. BillInv(p) /\ TurnInv(p)
    BY DEF PaidQueryInv
  <2>2. BillInv(p)'
    BY <1>1, <1>3, <1>4, <2>1 DEF BillInv, chargeVars, Unbilled, Billed, StreamSteps, Refunded
  <2>3. CASE p = q
    BY <1>1, <1>2, <1>3, <1>4, <2>2, <2>3 DEF TurnInv, turnVars, storeVars
  <2>4. CASE p # q
    BY <1>3, <1>4, <2>1, <2>2, <2>4 DEF TurnInv, HasRow, MessagesOf, turnVars, storeVars
  <2> QED
    BY <2>3, <2>4
<1>7. ASSUME NEW b \in Conversations PROVE ConversationInv(b)'
  <2>1. ConversationInv(b) /\ UNCHANGED <<owner, messages, minted>>
    BY <1>3 DEF PaidQueryInv, turnVars
  <2>2. MessagesOf(b)' = MessagesOf(b) /\ QuestionsFirst(b)' = QuestionsFirst(b)
    BY <2>1 DEF MessagesOf, QuestionsFirst
  <2>3. ASSUME NEW m \in MessagesOf(b)
        PROVE  pc'[m.query] # "new" /\ who'[m.query] = who[m.query]
    <3>1. m.query \in Queries \ {q}
      BY <1>1, <2>1, MessagesAreTyped DEF ConversationInv
    <3> QED
      BY <1>4, <2>1, <3>1 DEF ConversationInv
  <2> QED
    BY <2>1, <2>2, <2>3 DEF ConversationInv
<1> QED
  BY <1>1, <1>5, <1>6, <1>7 DEF PaidQueryInv

\* A crash loses the requests in flight and keeps the tables.
LEMMA CrashKeepsInv ==
    ASSUME PaidQueryInv, Crash
    PROVE  PaidQueryInv'
<1>1. TypeOK /\ StoreInv /\ StoreInv'
  BY StutterStoreInv DEF PaidQueryInv, Crash
<1>2. /\ pc' = [q \in Queries |-> IF q \in InFlight THEN "lost" ELSE pc[q]]
      /\ crashes' = crashes + 1 /\ crashes < MaxCrashes
      /\ UNCHANGED <<storeVars, turnVars, log, chargeVars, conv, who, streams, left>>
  BY DEF Crash
<1>3. TypeOK'
  <2>1. pc' \in [Queries -> Labels]
    BY <1>1, <1>2 DEF TypeOK, Labels, Ended
  <2>2. crashes' \in 0..MaxCrashes
    BY <1>1, <1>2 DEF TypeOK
  <2> QED
    BY <1>1, <1>2, <2>1, <2>2 DEF TypeOK, StoreInv, turnVars, chargeVars
<1>4. ASSUME NEW p \in Queries
      PROVE  /\ pc'[p] = IF pc[p] \in Ended \cup {"new"} THEN pc[p] ELSE "lost"
             /\ pc[p] \in Labels
  BY <1>1, <1>2 DEF InFlight, TypeOK
<1>5. ASSUME NEW p \in Queries PROVE BillInv(p)' /\ TurnInv(p)'
  <2>1. BillInv(p) /\ TurnInv(p)
    BY DEF PaidQueryInv
  <2>2. BillInv(p)'
    BY <1>2, <1>4, <2>1
    DEF BillInv, chargeVars, Unbilled, Billed, StreamSteps, Refunded, Ended, Labels
  <2>3. TurnInv(p)'
    BY <1>2, <1>4, <2>1
    DEF TurnInv, HasRow, MessagesOf, turnVars, storeVars, Ended
  <2> QED
    BY <2>2, <2>3
<1>6. ASSUME NEW d \in Conversations PROVE ConversationInv(d)'
  <2>1. ConversationInv(d) /\ UNCHANGED <<owner, messages, minted, who>>
    BY <1>2 DEF PaidQueryInv, turnVars
  <2>2. ASSUME NEW m \in MessagesOf(d) PROVE pc'[m.query] # "new"
    BY <1>4, <2>1, MessagesAreTyped DEF ConversationInv
  <2>3. MessagesOf(d)' = MessagesOf(d) /\ QuestionsFirst(d)' = QuestionsFirst(d)
    BY <2>1 DEF MessagesOf, QuestionsFirst
  <2> QED
    BY <2>1, <2>2, <2>3 DEF ConversationInv
<1> QED
  BY <1>1, <1>3, <1>5, <1>6 DEF PaidQueryInv

LEMMA StutterKeepsInv ==
    ASSUME PaidQueryInv, UNCHANGED vars
    PROVE  PaidQueryInv'
<1>1. /\ TypeOK /\ StoreInv
      /\ \A q \in Queries : BillInv(q) /\ TurnInv(q)
      /\ \A c \in Conversations : ConversationInv(c)
  BY DEF PaidQueryInv
<1>2. StoreInv' /\ TypeOK'
  BY <1>1, StutterStoreInv DEF vars, storeVars, TypeOK, StoreInv
<1>3. ASSUME NEW q \in Queries PROVE BillInv(q)' /\ TurnInv(q)'
  BY <1>1 DEF vars, BillInv, TurnInv, HasRow, MessagesOf
<1>4. ASSUME NEW c \in Conversations PROVE ConversationInv(c)'
  BY <1>1 DEF vars, ConversationInv, MessagesOf, QuestionsFirst
<1> QED
  BY <1>2, <1>3, <1>4 DEF PaidQueryInv

LEMMA NextKeepsInv == PaidQueryInv /\ [Next]_vars => PaidQueryInv'
<1> SUFFICES ASSUME PaidQueryInv, [Next]_vars PROVE PaidQueryInv'
  OBVIOUS
<1>1. ASSUME NEW a \in Agents, Register(a) PROVE PaidQueryInv'
  BY <1>1, RegisterKeepsInv
<1>2. ASSUME NEW q \in Queries, Step(q) PROVE PaidQueryInv'
  BY <1>2, EnsureConversationKeepsInv, LogsKeepInv, ReadsKeepInv, DebitKeepsInv,
     RefundsKeepInv, SavesKeepInv
  DEF Step
<1>3. ASSUME NEW q \in Queries, ClientLeaves(q) \/ CutOff(q) PROVE PaidQueryInv'
  BY <1>3, ClientLeavesKeepsInv, ReadsKeepInv
<1>4. ASSUME NEW q \in Queries, NEW a \in Agents, NEW stream \in BOOLEAN,
             NEW remember \in BOOLEAN, NEW c \in minted \cup {Nobody},
             Receive(q, a, stream, remember, c)
      PROVE  PaidQueryInv'
  BY <1>4, ReceiveKeepsInv
<1>5. ASSUME NEW c \in Conversations, DeleteConversation(c) PROVE PaidQueryInv'
  BY <1>5, DeleteKeepsInv
<1>6. CASE Crash
  BY <1>6, CrashKeepsInv
<1>7. CASE UNCHANGED vars
  BY <1>7, StutterKeepsInv
<1> QED
  BY <1>1, <1>2, <1>3, <1>4, <1>5, <1>6, <1>7 DEF Next

-----------------------------------------------------------------------------
(***************************************************************************)
(* Theorems.                                                               *)
(***************************************************************************)

\* The invariant that relates each request's place in rag.py to its charges,
\* its log entry and its conversation holds in every reachable state, whatever
\* the number of agents, requests, conversations and crashes.
THEOREM PaidQueryInvariance == Spec => []PaidQueryInv
  BY InitPaidQueryInv, NextKeepsInv, PTL DEF Spec

\* The rows, counts and program points keep their types.
THEOREM PaidQueryTypes == Spec => []TypeOK
<1>1. PaidQueryInv => TypeOK
  BY DEF PaidQueryInv
<1> QED
  BY <1>1, PaidQueryInvariance, PTL

\* However a paid request ends, its price agrees with its end (the debit and
\* the three refund paths of rag.py).
THEOREM AnswerAlwaysOrMoneyBack == Spec => []AnswerOrMoneyBack
<1>1. PaidQueryInv => AnswerOrMoneyBack
  <2> SUFFICES ASSUME PaidQueryInv, NEW q \in Queries
               PROVE  /\ pc[q] = "answered" => Net(q) = IF log[q] = "cached" THEN 0 ELSE 1
                      /\ pc[q] \in {"refused", "failed", "aborted"} => Net(q) = 0
    BY DEF AnswerOrMoneyBack
  <2>1. BillInv(q)
    BY DEF PaidQueryInv
  <2> QED
    BY <2>1 DEF BillInv, Unbilled, Refunded, Net
<1> QED
  BY <1>1, PaidQueryInvariance, PTL

\* What _record_query wrote of a request is what consume_credit and
\* refund_credit did to its agent's balance.
THEOREM LogAlwaysMatchesBill == Spec => []LogMatchesBill
<1>1. PaidQueryInv => LogMatchesBill
  <2> SUFFICES ASSUME PaidQueryInv, NEW q \in Queries
               PROVE  /\ log[q] = "success" => Net(q) = 1
                      /\ log[q] \in {"cached", "failed"} => Net(q) = 0
    BY DEF LogMatchesBill
  <2>1. BillInv(q) /\ pc[q] \in Labels
    BY DEF PaidQueryInv, TypeOK
  <2> QED
    BY <2>1 DEF BillInv, Unbilled, Billed, Refunded, Net, Labels, Ended, StreamSteps
<1> QED
  BY <1>1, PaidQueryInvariance, PTL

\* _ensure_conversation looks the owner up once, add_message asks nothing, and
\* still no turn lands in the conversation of another agent.
THEOREM ConversationsAlwaysPrivate == Spec => []ConversationsArePrivate
<1>1. PaidQueryInv => ConversationsArePrivate
  BY DEF PaidQueryInv, ConversationInv, ConversationsArePrivate
<1> QED
  BY <1>1, PaidQueryInvariance, PTL

\* The two add_message calls of a turn leave no answer without its question
\* and no answered request without its turn.
THEOREM TurnsAlwaysComplete == Spec => []TurnsAreComplete
<1>1. PaidQueryInv => TurnsAreComplete
  BY DEF PaidQueryInv, ConversationInv, TurnInv, TurnsAreComplete
<1> QED
  BY <1>1, PaidQueryInvariance, PTL

-----------------------------------------------------------------------------
(***************************************************************************)
(* Refinement of Escrow.                                                   *)
(***************************************************************************)
LEMMA InitEscrow == Init => Abstract!EscrowInit
  BY DEF Init, StoreInit, Abstract!EscrowInit, ChargeState

\* A step that moves no money keeps what was held by the requests it ends.
LEMMA KeepsTheHeld ==
    ASSUME PaidQueryInv, UNCHANGED <<rows, credits, debits, refunds>>,
           \A p \in Queries : pc[p] \in Ended => pc'[p] \in Ended,
           \A p \in Queries : debits[p] # 0 => who'[p] = who[p]
    PROVE  Abstract!EscrowNext
<1> DEFINE kept == {p \in Queries : ChargeState(p) = "held" /\ pc'[p] \in Ended}
<1>1. ASSUME NEW p \in Queries
      PROVE  ChargeState(p)' = IF p \in kept THEN "kept" ELSE ChargeState(p)
  BY DEF ChargeState
<1>2. Abstract!Keep(kept)
  <2>1. [q \in Queries |-> ChargeState(q)]' =
            [q \in Queries |-> IF q \in kept THEN "kept"
                               ELSE [p \in Queries |-> ChargeState(p)][q]]
    BY <1>1
  <2> QED
    BY <2>1 DEF Abstract!Keep
<1> QED
  BY <1>2 DEF Abstract!EscrowNext

\* The same for the steps of one request that is not over.
LEMMA GotoKeepsTheHeld ==
    ASSUME PaidQueryInv, NEW q \in Queries, pc[q] \notin Ended, NEW label, Goto(q, label),
           UNCHANGED <<rows, credits, debits, refunds, who>>
    PROVE  Abstract!EscrowNext
<1>1. \A p \in Queries : pc[p] \in Ended => pc'[p] \in Ended
  BY GotoEffect
<1> QED
  BY <1>1, KeepsTheHeld

LEMMA DebitHolds ==
    ASSUME PaidQueryInv, NEW q \in Queries, Debit(q)
    PROVE  Abstract!EscrowNext
<1>1. TypeOK /\ BillInv(q) /\ pc[q] = "debit" /\ debits[q] = 0 /\ refunds[q] = 0
  BY DEF PaidQueryInv, Debit, BillInv, Unbilled
<1>2. CASE Goto(q, "refused") /\ UNCHANGED <<storeVars, debits>>
  BY <1>1, <1>2, GotoKeepsTheHeld DEF Debit, storeVars, callVars, Ended
<1>3. CASE /\ ConsumeCredits(who[q], 1, 1)
           /\ debits' = [debits EXCEPT ![q] = debits[q] + 1]
           /\ Goto(q, IF q \in streams THEN "stream" ELSE "generate")
  <2>1. /\ debits'[q] = 1 /\ refunds' = refunds /\ who' = who
        /\ \A p \in Queries \ {q} : debits'[p] = debits[p] /\ pc'[p] = pc[p]
        /\ pc'[q] \notin Ended
    BY <1>1, <1>3, GotoEffect DEF Debit, TypeOK, callVars, Ended
  <2>2. /\ who[q] \in rows /\ who[q] \in Agents /\ credits[who[q]] > 0
        /\ credits' = [credits EXCEPT ![who[q]] = @ - 1] /\ rows' = rows
    BY <1>1, <1>3 DEF ConsumeCredits, Affordable, TypeOK, StoreTypeOK
  <2>3. ChargeState(q) = "none" /\ ChargeState(q)' = "held"
    BY <1>1, <2>1 DEF ChargeState
  <2>4. \A p \in Queries \ {q} : ChargeState(p)' = ChargeState(p)
    BY <2>1 DEF ChargeState
  <2>5. [p \in Queries |-> ChargeState(p)]' =
            [[p \in Queries |-> ChargeState(p)] EXCEPT ![q] = "held"]
    BY <2>3, <2>4
  <2>6. PICK a \in Agents : a = who[q]
    BY <2>2
  <2>7. [p \in Queries |-> IF debits[p] = 0 THEN Nobody ELSE who[p]]' =
            [[p \in Queries |-> IF debits[p] = 0 THEN Nobody ELSE who[p]] EXCEPT ![q] = a]
    <3>1. ASSUME NEW p \in Queries
          PROVE  (IF debits'[p] = 0 THEN Nobody ELSE who'[p]) =
                     IF p = q THEN a ELSE IF debits[p] = 0 THEN Nobody ELSE who[p]
      BY <2>1, <2>6
    <3> QED
      BY <3>1
  <2>8. Abstract!Hold(q, a)
    BY <2>2, <2>3, <2>5, <2>6, <2>7 DEF Abstract!Hold
  <2> QED
    BY <2>8 DEF Abstract!EscrowNext
<1> QED
  BY <1>2, <1>3 DEF Debit

LEMMA RefundsReturn ==
    ASSUME PaidQueryInv, NEW q \in Queries,
           RefundFailure(q) \/ RefundStream(q) \/ CleanUp(q)
    PROVE  Abstract!EscrowNext
<1>1. /\ TypeOK /\ pc[q] \in Billed /\ pc[q] \notin Ended /\ pc[q] # "new"
      /\ debits[q] = 1 /\ refunds[q] = 0
  BY DEF PaidQueryInv, BillInv, RefundFailure, RefundStream, CleanUp, Billed,
         StreamSteps, Ended
<1>2. /\ RefundCredits(who[q], 1) /\ refunds' = [refunds EXCEPT ![q] = @ + 1]
      /\ UNCHANGED <<debits, who>> /\ \E label : Goto(q, label)
  BY DEF RefundFailure, RefundStream, CleanUp, GiveBack, callVars
<1>3. /\ refunds'[q] = 1 /\ debits' = debits /\ who' = who
      /\ \A p \in Queries \ {q} : refunds'[p] = refunds[p] /\ pc'[p] = pc[p]
  BY <1>1, <1>2, GotoEffect DEF TypeOK
<1>4. /\ who[q] \in rows /\ rows' = rows
      /\ credits' = [credits EXCEPT ![who[q]] = @ + 1]
  BY <1>1, <1>2, Known DEF RefundCredits, GrantCredits
<1>5. ChargeState(q) = "held" /\ ChargeState(q)' = "returned"
  BY <1>1, <1>3 DEF ChargeState
<1>6. \A p \in Queries \ {q} : ChargeState(p)' = ChargeState(p)
  BY <1>3 DEF ChargeState
<1>7. [p \in Queries |-> ChargeState(p)]' =
          [[p \in Queries |-> ChargeState(p)] EXCEPT ![q] = "returned"]
  BY <1>5, <1>6
<1>8. [p \in Queries |-> IF debits[p] = 0 THEN Nobody ELSE who[p]]' =
          [p \in Queries |-> IF debits[p] = 0 THEN Nobody ELSE who[p]]
  BY <1>3
<1>9. /\ [p \in Queries |-> ChargeState(p)][q] = "held"
      /\ [p \in Queries |-> IF debits[p] = 0 THEN Nobody ELSE who[p]][q] = who[q]
  BY <1>1, <1>5
<1>10. Abstract!Return(q)
  BY <1>4, <1>7, <1>8, <1>9 DEF Abstract!Return
<1> QED
  BY <1>10 DEF Abstract!EscrowNext

\* An agent without a row owns nothing, so its free credits are all it has.
LEMMA RegisterFunds ==
    ASSUME PaidQueryInv, NEW a \in Agents, Register(a)
    PROVE  Abstract!EscrowNext
<1>1. credits[a] = 0 /\ credits \in [Agents -> Nat]
  BY DEF PaidQueryInv, StoreInv, NoRowNoMoney, StoreTypeOK, Register
<1>2. /\ a \notin rows /\ rows' = rows \cup {a}
      /\ credits' = [credits EXCEPT ![a] = @ + FreeCredits]
      /\ UNCHANGED <<debits, refunds, pc, who>>
  BY <1>1, FreeCreditsAssumption DEF Register, OpenAccount, chargeVars, callVars
<1>3. Abstract!Fund(a)
  BY <1>2 DEF Abstract!Fund, ChargeState
<1> QED
  BY <1>3 DEF Abstract!EscrowNext

LEMMA NextEscrow ==
    PaidQueryInv /\ [Next]_vars => [Abstract!EscrowNext]_(Abstract!escrowVars)
<1> SUFFICES ASSUME PaidQueryInv, [Next]_vars
             PROVE  Abstract!EscrowNext
  OBVIOUS
<1>1. ASSUME NEW a \in Agents, Register(a) PROVE Abstract!EscrowNext
  BY <1>1, RegisterFunds
<1>2. ASSUME NEW q \in Queries,
             \/ EnsureConversation(q) \/ AnswerFromCache(q) \/ MissCache(q)
             \/ Generate(q) \/ LogFailure(q) \/ LogSuccess(q)
             \/ StartStream(q) \/ StreamEvents(q) \/ CutOff(q)
      PROVE  Abstract!EscrowNext
  <2>1. pc[q] \notin Ended /\ UNCHANGED <<rows, credits, debits, refunds, who>>
    BY <1>2
    DEF EnsureConversation, AnswerFromCache, MissCache, Generate, LogFailure, LogSuccess,
        StartStream, StreamEvents, CutOff, Ended, StreamSteps, storeVars, chargeVars, callVars
  <2>2. \E label : Goto(q, label)
    BY <1>2
    DEF EnsureConversation, AnswerFromCache, MissCache, Generate, LogFailure, LogSuccess,
        StartStream, StreamEvents, CutOff
  <2> QED
    BY <2>1, <2>2, GotoKeepsTheHeld
<1>3. ASSUME NEW q \in Queries, SaveQuestion(q) \/ SaveAnswer(q) PROVE Abstract!EscrowNext
  <2>1. pc[q] \notin Ended /\ UNCHANGED <<rows, credits, debits, refunds, who>>
    BY <1>3 DEF SaveQuestion, SaveAnswer, AddMessage, Ended, storeVars, chargeVars, callVars
  <2>2. \E label : Goto(q, label)
    BY <1>3 DEF SaveQuestion, SaveAnswer, AddMessage
  <2> QED
    BY <2>1, <2>2, GotoKeepsTheHeld
<1>4. ASSUME NEW q \in Queries, Debit(q) PROVE Abstract!EscrowNext
  BY <1>4, DebitHolds
<1>5. ASSUME NEW q \in Queries, RefundFailure(q) \/ RefundStream(q) \/ CleanUp(q)
      PROVE  Abstract!EscrowNext
  BY <1>5, RefundsReturn
<1>6. ASSUME NEW q \in Queries, NEW a \in Agents, NEW stream \in BOOLEAN,
             NEW remember \in BOOLEAN, NEW c \in minted \cup {Nobody},
             Receive(q, a, stream, remember, c)
      PROVE  Abstract!EscrowNext
  <2>1. /\ pc[q] = "new" /\ debits[q] = 0 /\ UNCHANGED <<rows, credits, debits, refunds>>
        /\ \E label : Goto(q, label)
    BY <1>6 DEF Receive, PaidQueryInv, BillInv, Unbilled, storeVars, chargeVars
  <2>2. \A p \in Queries : pc[p] \in Ended => pc'[p] \in Ended
    BY <2>1, GotoEffect DEF Ended
  <2>3. \A p \in Queries : debits[p] # 0 => who'[p] = who[p]
    BY <1>6, <2>1 DEF Receive, PaidQueryInv, TypeOK
  <2> QED
    BY <2>1, <2>2, <2>3, KeepsTheHeld
<1>7. CASE \/ \E q \in Queries : ClientLeaves(q)
           \/ \E c \in Conversations : DeleteConversation(c)
           \/ UNCHANGED vars
  BY <1>7, KeepsTheHeld DEF ClientLeaves, DeleteConversation, vars, storeVars, chargeVars, callVars
<1>8. CASE Crash
  <2>1. UNCHANGED <<rows, credits, debits, refunds, who>>
    BY <1>8 DEF Crash, storeVars, chargeVars
  <2>2. \A p \in Queries : pc[p] \in Ended => pc'[p] \in Ended
    BY <1>8 DEF Crash, InFlight, Ended
  <2> QED
    BY <2>1, <2>2, KeepsTheHeld
<1> QED
  BY <1>1, <1>2, <1>3, <1>4, <1>5, <1>6, <1>7, <1>8 DEF Next, Step

\* The paid endpoints are an escrow: whatever fails, leaves or crashes, a
\* request takes one credit at most, out of the balance of its own agent, and
\* that credit is returned once or kept for good.
THEOREM PaidQueryImplementsEscrow == Spec => ImplementsEscrow
<1>1. Spec => Abstract!EscrowInit /\ [][Abstract!EscrowNext]_(Abstract!escrowVars)
  BY InitEscrow, NextEscrow, PaidQueryInvariance, PTL DEF Spec
<1> QED
  BY <1>1 DEF ImplementsEscrow, Abstract!EscrowSpec

-----------------------------------------------------------------------------
(***************************************************************************)
(* Towards the end of every request: what of ChargesAreSettled can be said *)
(* without fairness.                                                       *)
(***************************************************************************)

\* How many steps a request has before it at the most.
StepsLeft(label) ==
    IF label \in Ended THEN 0
    ELSE IF label \in {"log_success", "log_failure", "refund_exception",
                       "refund_stream", "cleanup"} THEN 1
    ELSE IF label \in {"save_answer", "refund_app_error"} THEN 2
    ELSE IF label = "save_question" THEN 3
    ELSE IF label \in {"generate", "events"} THEN 4
    ELSE IF label = "stream" THEN 5
    ELSE IF label = "debit" THEN 6
    ELSE IF label = "lookup" THEN 7
    ELSE IF label = "conversation" THEN 8
    ELSE 9

\* A request only goes forward, and a step of its own takes it forward.
Advances(q) ==
    /\ pc'[q] # pc[q] => StepsLeft(pc'[q]) < StepsLeft(pc[q])
    /\ Step(q) => pc'[q] # pc[q]

\* No step of anybody puts a request back, and each of its own steps brings it
\* nearer to its end: nothing in rag.py is charged, refunded or saved again.
QueriesAdvance == [][\A q \in Queries : Advances(q)]_vars

LEMMA EachStepAdvances ==
    ASSUME TypeOK, NEW q \in Queries, Step(q)
    PROVE  StepsLeft(pc'[q]) < StepsLeft(pc[q])
<1>1. \/ pc[q] = "conversation" /\ pc'[q] = "lookup"
      \/ pc[q] = "lookup" /\ pc'[q] \in {"answered", "debit"}
      \/ pc[q] = "debit" /\ pc'[q] \in {"stream", "generate", "refused"}
      \/ pc[q] \in {"generate", "events"} /\
             pc'[q] \in {"log_success", "save_question", "refund_app_error",
                         "refund_exception", "cleanup", "refund_stream"}
      \/ pc[q] = "refund_app_error" /\ pc'[q] = "log_failure"
      \/ pc[q] \in {"refund_exception", "log_failure", "refund_stream"}
             /\ pc'[q] = "failed"
      \/ pc[q] = "save_question" /\ pc'[q] \in {"save_error", "save_answer"}
      \/ pc[q] = "save_answer" /\ pc'[q] \in {"save_error", "log_success"}
      \/ pc[q] = "log_success" /\ pc'[q] = "answered"
      \/ pc[q] = "stream" /\ pc'[q] = "events"
      \/ pc[q] = "cleanup" /\ pc'[q] = "aborted"
  BY DEF Step, EnsureConversation, AnswerFromCache, MissCache, Debit, Generate,
     RefundFailure, LogFailure, SaveQuestion, SaveAnswer, AddMessage, LogSuccess,
     StartStream, StreamEvents, RefundStream, CleanUp, Goto, SaveTurn, TypeOK
<1> QED
  BY <1>1 DEF StepsLeft, Ended

\* A step of one request leaves the others where they are.
LEMMA OthersWait ==
    ASSUME TypeOK, NEW q \in Queries, NEW p \in Queries \ {q},
           \/ Step(p) \/ ClientLeaves(p) \/ CutOff(p)
           \/ \E a \in Agents, stream, remember \in BOOLEAN, c \in minted \cup {Nobody} :
                 Receive(p, a, stream, remember, c)
    PROVE  pc'[q] = pc[q]
  BY DEF Step, EnsureConversation, AnswerFromCache, MissCache, Debit, Generate,
     RefundFailure, LogFailure, SaveQuestion, SaveAnswer, AddMessage, LogSuccess,
     StartStream, StreamEvents, RefundStream, CleanUp, ClientLeaves, CutOff, Receive,
     Goto, TypeOK

LEMMA NextAdvances == TypeOK /\ [Next]_vars => [\A q \in Queries : Advances(q)]_vars
<1> SUFFICES ASSUME TypeOK, Next, NEW q \in Queries
             PROVE  Advances(q)
  OBVIOUS
<1>1. Step(q) => StepsLeft(pc'[q]) < StepsLeft(pc[q])
  BY EachStepAdvances
<1>2. StepsLeft(pc[q]) \in Nat
  BY DEF StepsLeft
<1>3. CASE Step(q)
  BY <1>1, <1>2, <1>3 DEF Advances
<1>4. CASE ~Step(q)
  <2>1. ASSUME NEW a \in Agents, NEW stream \in BOOLEAN, NEW remember \in BOOLEAN,
               NEW c \in minted \cup {Nobody}, Receive(q, a, stream, remember, c)
        PROVE  StepsLeft(pc'[q]) < StepsLeft(pc[q])
    <3>1. pc[q] = "new" /\ pc'[q] \in {"conversation", "lookup"}
      BY <2>1 DEF Receive, Goto, TypeOK
    <3> QED
      BY <3>1 DEF StepsLeft, Ended
  <2>2. ASSUME CutOff(q)
        PROVE  StepsLeft(pc'[q]) < StepsLeft(pc[q])
    <3>1. pc[q] \in StreamSteps /\ pc'[q] = "cut_off"
      BY <2>2 DEF CutOff, Goto, TypeOK
    <3> QED
      BY <3>1 DEF StepsLeft, Ended, StreamSteps
  <2>3. ASSUME Crash, pc'[q] # pc[q]
        PROVE  StepsLeft(pc'[q]) < StepsLeft(pc[q])
    <3>1. pc'[q] = "lost" /\ pc[q] \in Labels \ (Ended \cup {"new"})
      BY <2>3 DEF Crash, InFlight, TypeOK
    <3> QED
      BY <3>1 DEF StepsLeft, Ended, Labels, StreamSteps
  <2>4. ASSUME \/ \E a \in Agents : Register(a)
               \/ ClientLeaves(q)
               \/ \E c \in Conversations : DeleteConversation(c)
        PROVE  pc'[q] = pc[q]
    BY <2>4 DEF Register, ClientLeaves, DeleteConversation
  <2> QED
    BY <1>4, <2>1, <2>2, <2>3, <2>4, OthersWait DEF Next, Advances
<1> QED
  BY <1>3, <1>4

\* A paid request has taken nine steps at the most when it ends, whatever the
\* others do: no loop, and nothing that is tried again.
THEOREM QueriesAlwaysAdvance == Spec => QueriesAdvance
  BY PaidQueryTypes, NextAdvances, PTL DEF Spec, QueriesAdvance

-----------------------------------------------------------------------------
(***************************************************************************)
(* How a charge that is neither returned nor answered for comes about.     *)
(***************************************************************************)
\* The ends that keep the charge of a request without an answer have a cause
\* that lasts.
EndInv(q) ==
    /\ pc[q] = "lost" => crashes > 0
    /\ pc[q] = "cut_off" => q \in left
    /\ pc[q] = "save_error" =>
           conv[q] \in minted /\ conv[q] # Nobody /\ owner[conv[q]] = Nobody

\* While the server stays up, the clients stay and no conversation is deleted,
\* a request that has ended has its credit back or its answer on record.
EndedChargesAreSettled ==
    Undisturbed =>
        \A q \in Queries : pc[q] \in Ended /\ debits[q] = 1 =>
            refunds[q] = 1 \/ log[q] = "success"

\* What a request ended with stays as it is: a crash is not undone, a client
\* does not come back, and a deleted conversation is not created again.
LEMMA EndsStay ==
    ASSUME PaidQueryInv, Next
    PROVE  /\ crashes' \in Nat /\ crashes' >= crashes
           /\ left \subseteq left'
           /\ minted \subseteq minted'
           /\ \A c \in minted : owner[c] = Nobody => owner'[c] = Nobody
           /\ \A q \in Queries : pc[q] # "new" /\ pc[q] # "conversation" => conv'[q] = conv[q]
<1>1. TypeOK
  BY DEF PaidQueryInv
<1>2. ASSUME NEW q \in Queries, Step(q), ~EnsureConversation(q)
      PROVE  UNCHANGED <<crashes, left, minted, owner, conv>>
  BY <1>2 DEF Step, AnswerFromCache, MissCache, Debit, Generate,
     RefundFailure, LogFailure, SaveQuestion, SaveAnswer, AddMessage, LogSuccess,
     StartStream, StreamEvents, RefundStream, CleanUp, GiveBack, callVars, turnVars
<1>3. ASSUME NEW q \in Queries, EnsureConversation(q)
      PROVE  /\ UNCHANGED <<crashes, left>> /\ minted \subseteq minted'
             /\ \A c \in minted : owner'[c] = owner[c]
             /\ \A p \in Queries : pc[p] # "conversation" => conv'[p] = conv[p]
  BY <1>1, <1>3 DEF EnsureConversation, callVars, TypeOK
<1>4. ASSUME NEW q \in Queries, ClientLeaves(q) \/ CutOff(q)
      PROVE  UNCHANGED <<crashes, minted, owner, conv>> /\ left \subseteq left'
  BY <1>4 DEF ClientLeaves, CutOff, callVars, turnVars
<1>5. ASSUME NEW q \in Queries, NEW a \in Agents, NEW stream \in BOOLEAN,
             NEW remember \in BOOLEAN, NEW c \in minted \cup {Nobody},
             Receive(q, a, stream, remember, c)
      PROVE  /\ UNCHANGED <<crashes, left, minted, owner>>
             /\ \A p \in Queries : pc[p] # "new" => conv'[p] = conv[p]
  BY <1>1, <1>5 DEF Receive, turnVars, TypeOK
<1>6. ASSUME \/ \E a \in Agents : Register(a)
             \/ \E c \in Conversations : DeleteConversation(c)
      PROVE  /\ UNCHANGED <<crashes, left, minted, conv>>
             /\ \A c \in minted : owner[c] = Nobody => owner'[c] = Nobody
  BY <1>1, <1>6 DEF Register, DeleteConversation, callVars, turnVars, TypeOK
<1>7. ASSUME Crash
      PROVE  UNCHANGED <<left, minted, owner, conv>> /\ crashes' = crashes + 1
  BY <1>7 DEF Crash, turnVars
<1>8. crashes \in Nat
  BY <1>1 DEF TypeOK
<1>9. CASE Crash
  BY <1>7, <1>8, <1>9
<1>10. CASE ~Crash
  BY <1>2, <1>3, <1>4, <1>5, <1>6, <1>8, <1>10 DEF Next
<1> QED
  BY <1>9, <1>10

\* The three ends are entered where they are explained.
LEMMA EndsAreEntered ==
    ASSUME PaidQueryInv, Next, NEW q \in Queries, pc'[q] # pc[q]
    PROVE  EndInv(q)'
<1>1. TypeOK /\ TurnInv(q) /\ crashes \in Nat
  BY DEF PaidQueryInv, TypeOK
<1>2. CASE Crash
  <2>1. pc'[q] = "lost" /\ crashes' > 0
    BY <1>1, <1>2 DEF Crash, TypeOK
  <2> QED
    BY <2>1 DEF EndInv
<1>3. CASE CutOff(q)
  BY <1>1, <1>3 DEF CutOff, Goto, callVars, EndInv, TypeOK
<1>4. ASSUME Step(q) PROVE EndInv(q)'
  <2>1. CASE SaveQuestion(q) \/ SaveAnswer(q)
    BY <1>1, <2>1
    DEF SaveQuestion, SaveAnswer, AddMessage, Goto, TurnInv, EndInv, TypeOK
  <2>2. CASE ~(SaveQuestion(q) \/ SaveAnswer(q))
    <3>1. pc'[q] \notin {"lost", "cut_off", "save_error"}
      BY <1>1, <1>4, <2>2
      DEF Step, EnsureConversation, AnswerFromCache, MissCache, Debit, Generate,
          RefundFailure, LogFailure, LogSuccess, StartStream, StreamEvents, RefundStream,
          CleanUp, Goto, SaveTurn, TypeOK
    <3> QED
      BY <3>1 DEF EndInv
  <2> QED
    BY <2>1, <2>2
<1>5. ASSUME NEW a \in Agents, NEW stream \in BOOLEAN, NEW remember \in BOOLEAN,
             NEW c \in minted \cup {Nobody}, Receive(q, a, stream, remember, c)
      PROVE  EndInv(q)'
  BY <1>1, <1>5 DEF Receive, Goto, EndInv, TypeOK
<1>6. ASSUME \/ \E a \in Agents : Register(a)
             \/ ClientLeaves(q)
             \/ \E c \in Conversations : DeleteConversation(c)
      PROVE  FALSE
  BY <1>6 DEF Register, ClientLeaves, DeleteConversation
<1> QED
  BY <1>1, <1>2, <1>3, <1>4, <1>5, <1>6, OthersWait DEF Next

LEMMA NextEnds ==
    ASSUME PaidQueryInv, \A q \in Queries : EndInv(q), [Next]_vars
    PROVE  \A q \in Queries : EndInv(q)'
<1> SUFFICES ASSUME NEW q \in Queries PROVE EndInv(q)'
  OBVIOUS
<1>1. CASE UNCHANGED vars
  BY <1>1 DEF vars, EndInv
<1>2. CASE Next /\ pc'[q] # pc[q]
  BY <1>2, EndsAreEntered
<1>3. CASE Next /\ pc'[q] = pc[q]
  <2>1. crashes \in Nat
    BY DEF PaidQueryInv, TypeOK
  <2> QED
    BY <1>3, <2>1, EndsStay DEF EndInv
<1> QED
  BY <1>1, <1>2, <1>3

\* A credit that is neither returned nor paid for a logged answer was lost to
\* a crash, to a client that left or to the deletion of the conversation the
\* turn goes to, and to nothing else: what ChargesAreSettled leaves to the
\* schedule is that the request ends.
THEOREM EndedChargesAlwaysSettled == Spec => []EndedChargesAreSettled
<1>1. Init => \A q \in Queries : EndInv(q)
  BY DEF Init, EndInv
<1>2. PaidQueryInv /\ (\A q \in Queries : EndInv(q)) /\ [Next]_vars
          => (\A q \in Queries : EndInv(q))'
  BY NextEnds
<1>3. PaidQueryInv /\ (\A q \in Queries : EndInv(q)) => EndedChargesAreSettled
  <2> SUFFICES ASSUME PaidQueryInv, NEW q \in Queries, EndInv(q), Undisturbed,
                      pc[q] \in Ended, debits[q] = 1
               PROVE  refunds[q] = 1 \/ log[q] = "success"
    BY DEF EndedChargesAreSettled
  <2>1. BillInv(q) /\ TypeOK
    BY DEF PaidQueryInv
  <2>2. pc[q] \notin {"lost", "cut_off", "save_error"}
    BY DEF EndInv, Undisturbed
  <2> QED
    BY <2>1, <2>2 DEF BillInv, Unbilled, Refunded, Ended
<1> QED
  BY <1>1, <1>2, <1>3, PaidQueryInvariance, PTL DEF Spec

-----------------------------------------------------------------------------
(***************************************************************************)
(* The conversation ids do not run out.                                    *)
(***************************************************************************)
\* The requests that have been through _ensure_conversation, or past it.
Placed == {q \in Queries : pc[q] \notin {"new", "conversation"}}

\* Each of them was given at most one conversation.
IdsCounted == Cardinality(minted) <= Cardinality(Placed)

\* A request that needs a new conversation finds an id.
FreshConversationsSuffice ==
    \A q \in Queries : pc[q] = "conversation" => Conversations \ minted # {}

LEMMA PlacedGrows ==
    ASSUME TypeOK, [Next]_vars
    PROVE  Placed \subseteq Placed'
<1> SUFFICES ASSUME NEW q \in Queries, pc[q] \notin {"new", "conversation"}
             PROVE  pc'[q] \notin {"new", "conversation"}
  BY DEF Placed
<1>1. [\A p \in Queries : Advances(p)]_vars
  BY NextAdvances
<1>2. pc[q] \in Labels
  BY DEF TypeOK
<1>3. StepsLeft(pc[q]) < 8
  BY <1>2 DEF StepsLeft, Labels, Ended, StreamSteps
<1>4. StepsLeft("new") = 9 /\ StepsLeft("conversation") = 8
  BY DEF StepsLeft, Ended
<1>5. CASE pc'[q] = pc[q]
  BY <1>5
<1>6. CASE pc'[q] # pc[q]
  <2>1. StepsLeft(pc'[q]) < StepsLeft(pc[q]) /\ StepsLeft(pc[q]) \in Nat
           /\ StepsLeft(pc'[q]) \in Nat
    BY <1>1, <1>6 DEF Advances, vars, StepsLeft
  <2> QED
    BY <1>3, <1>4, <2>1
<1> QED
  BY <1>5, <1>6

LEMMA NextIdsCounted ==
    ASSUME IsFiniteSet(Queries), IsFiniteSet(Conversations), TypeOK, IdsCounted,
           [Next]_vars
    PROVE  IdsCounted'
<1>1. /\ IsFiniteSet(minted) /\ Cardinality(minted) \in Nat
      /\ IsFiniteSet(Placed) /\ Cardinality(Placed) \in Nat
      /\ IsFiniteSet(Placed') /\ Cardinality(Placed') \in Nat
      /\ Cardinality(Placed) <= Cardinality(Placed')
  <2>1. Placed \subseteq Queries /\ Placed' \subseteq Queries /\ minted \subseteq Conversations
    BY DEF Placed, TypeOK
  <2>2. IsFiniteSet(minted) /\ IsFiniteSet(Placed) /\ IsFiniteSet(Placed')
    BY <2>1, FS_Subset
  <2> QED
    BY <2>2, PlacedGrows, FS_Subset, FS_CardinalityType
<1>2. CASE minted' = minted
  BY <1>1, <1>2 DEF IdsCounted
<1>3. ASSUME NEW q \in Queries, EnsureConversation(q), minted' # minted
      PROVE  IdsCounted'
  <2>1. PICK c \in Conversations \ minted : minted' = minted \cup {c}
    BY <1>3 DEF EnsureConversation
  <2>2. q \notin Placed /\ q \in Placed'
    BY <1>3 DEF EnsureConversation, Placed, Goto, TypeOK
  <2>3. Placed \cup {q} \subseteq Placed'
    BY <2>2, PlacedGrows
  <2>4. Cardinality(minted') = Cardinality(minted) + 1
    BY <1>1, <2>1, FS_AddElement
  <2>5. /\ IsFiniteSet(Placed \cup {q})
        /\ Cardinality(Placed \cup {q}) = Cardinality(Placed) + 1
    BY <1>1, <2>2, FS_AddElement
  <2>6. Cardinality(Placed \cup {q}) <= Cardinality(Placed')
    BY <1>1, <2>3, FS_Subset
  <2> QED
    BY <1>1, <2>4, <2>5, <2>6 DEF IdsCounted
<1>4. minted' = minted \/ \E q \in Queries : EnsureConversation(q)
  BY DEF Next, Step, Register, DeleteConversation, ClientLeaves, CutOff, Receive, Crash,
     AnswerFromCache, MissCache, Debit, Generate, RefundFailure, LogFailure,
     SaveQuestion, SaveAnswer, AddMessage, LogSuccess, StartStream, StreamEvents,
     RefundStream, CleanUp, GiveBack, turnVars, vars
<1> QED
  BY <1>2, <1>3, <1>4

\* With an id for each request, _ensure_conversation always finds a fresh one:
\* the finite set of ids leaves no behaviour of the endpoints out.
THEOREM FreshConversationsAlwaysSuffice ==
    ASSUME IsFiniteSet(Queries), IsFiniteSet(Conversations),
           Cardinality(Queries) <= Cardinality(Conversations)
    PROVE  Spec => []FreshConversationsSuffice
<1>1. Init => IdsCounted
  <2> SUFFICES ASSUME Init PROVE IdsCounted
    OBVIOUS
  <2>1. minted = {} /\ Placed = {}
    BY DEF Init, Placed
  <2>2. Cardinality(minted) = 0 /\ Cardinality(Placed) = 0
    BY <2>1, FS_EmptySet
  <2> QED
    BY <2>2 DEF IdsCounted
<1>2. TypeOK /\ IdsCounted /\ [Next]_vars => IdsCounted'
  BY NextIdsCounted
<1>3. TypeOK /\ IdsCounted => FreshConversationsSuffice
  <2> SUFFICES ASSUME TypeOK, IdsCounted, NEW q \in Queries, pc[q] = "conversation",
                      Conversations \ minted = {}
               PROVE  FALSE
    BY DEF FreshConversationsSuffice
  <2>1. minted = Conversations
    BY DEF TypeOK
  <2>2. Placed \subseteq Queries /\ q \notin Placed
    BY DEF Placed
  <2>3. /\ Cardinality(Placed) <= Cardinality(Queries)
        /\ Cardinality(Placed) # Cardinality(Queries)
        /\ IsFiniteSet(Placed)
    BY <2>2, FS_Subset
  <2>4. Cardinality(Placed) \in Nat /\ Cardinality(Queries) \in Nat
           /\ Cardinality(Conversations) \in Nat
    BY <2>3, FS_CardinalityType
  <2> QED
    BY <2>1, <2>3, <2>4 DEF IdsCounted
<1> QED
  BY <1>1, <1>2, <1>3, PaidQueryTypes, PTL DEF Spec
=============================================================================
