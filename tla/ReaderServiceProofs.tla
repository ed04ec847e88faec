------------------------- MODULE ReaderServiceProofs -------------------------
(***************************************************************************)
(* ReaderInv is inductive, whatever the jobs, the attempts and the faults. *)
(* There is one lemma per action, and one step per part of the invariant   *)
(* under it.                                                               *)
(***************************************************************************)
EXTENDS ReaderService, FiniteSetTheorems, TLAPS

LEMMA AskOcrKeeps ==
  ASSUME ReaderAssumption, ReaderInv, NEW j \in Jobs, AskOcr(j)
  PROVE  ReaderInv'
<1>1. ReaderTypeOK'
  BY DEF ReaderAssumption, ReaderInv, ReaderTypeOK, Stages, Phases, InService, OcrAnswers, LlmAnswers, Fallback, NoAnswer, Calls, Services, AskOcr, Send, AfterFailure, jobVars, callVars, modelVars
<1>2. CallsInOrder'
  BY DEF ReaderAssumption, ReaderInv, ReaderTypeOK, CallsInOrder, Stages, Phases, InService, Calls, Services, NoAnswer, AskOcr, Send, AfterFailure, jobVars, callVars, modelVars
<1>3. AnswersFit'
  BY DEF ReaderAssumption, ReaderInv, ReaderTypeOK, AnswersFit, Phases, InService, OcrAnswers, LlmAnswers, Fallback, NoAnswer, Calls, Services, AskOcr, Send, AfterFailure, jobVars, callVars, modelVars
<1>4. BlankIsRefused'
  BY DEF ReaderAssumption, ReaderInv, ReaderTypeOK, CallsInOrder, AnswersFit, BlankIsRefused, TextOf, Phases, InService, Computing, NoAnswer, Calls, Services, AskOcr, Send, AfterFailure, jobVars, callVars, modelVars
<1>5. StageFits'
  BY DEF ReaderAssumption, ReaderInv, ReaderTypeOK, CallsInOrder, AnswersFit, BlankIsRefused, TextOf, StageFits, Stages, Phases, InService, Computing, OcrAnswers, LlmAnswers, Fallback, NoAnswer, Calls, Services, AskOcr, Send, AfterFailure, jobVars, callVars, modelVars
<1>6. OneAtATime'
  BY DEF ReaderAssumption, ReaderInv, ReaderTypeOK, OneAtATime, Phases, InService, Computing, Calls, Services, AskOcr, Send, AfterFailure, jobVars, callVars, modelVars
<1>7. OneModelPerProcess'
  BY DEF ReaderAssumption, ReaderInv, ReaderTypeOK, CallsInOrder, AnswersFit, OneAtATime, OneModelPerProcess, Phases, InService, Computing, Calls, Services, AskOcr, Send, AfterFailure, jobVars, callVars, modelVars
<1>8. QED
  BY <1>1, <1>2, <1>3, <1>4, <1>5, <1>6, <1>7 DEF ReaderInv

LEMMA AskLlmKeeps ==
  ASSUME ReaderAssumption, ReaderInv, NEW j \in Jobs, AskLlm(j)
  PROVE  ReaderInv'
<1> DEFINE n == <<j, attempt[j], "llm">>
            o == <<j, attempt[j], "ocr">>
<1>0. /\ attempt[j] \in 1..Attempts /\ n \in Calls /\ o \in Calls
      /\ phase[n] = "unsent" /\ answer[n] = NoAnswer
      /\ phase[o] = "answered" /\ answer[o] \in {"part", "blank"}
  BY DEF ReaderAssumption, ReaderInv, ReaderTypeOK, CallsInOrder, StageFits, AskLlm, Stages, Calls, Services
<1>1. ReaderTypeOK'
  BY DEF ReaderAssumption, ReaderInv, ReaderTypeOK, Stages, Phases, InService, OcrAnswers, LlmAnswers, Fallback, NoAnswer, Calls, Services, AskLlm, Send, AfterFailure, jobVars, callVars, modelVars
<1>2. CallsInOrder'
  <2>1. /\ attempt' = attempt /\ answer' = answer
        /\ \/ stage' = [stage EXCEPT ![j] = "llm"] /\ phase' = [phase EXCEPT ![n] = "queued"]
           \/ stage' = [stage EXCEPT ![j] = AfterFailure(attempt[j])] /\ phase' = phase
    BY DEF AskLlm, Send
  <2>2. stage' \in [Jobs -> Stages] /\ stage'[j] \notin {"ocr", "unread"}
        /\ \A i \in Jobs \ {j} : stage'[i] = stage[i]
    BY <2>1 DEF AfterFailure, ReaderInv, ReaderTypeOK, Stages
  <2>3. phase' \in [Calls -> Phases] /\ phase'[o] = phase[o]
        /\ \A c \in Calls \ {n} : phase'[c] = phase[c]
    BY <1>0, <2>1 DEF ReaderInv, ReaderTypeOK, Phases, InService, Calls
  <2>4. \A i \in Jobs : stage'[i] # "idle" => attempt'[i] # 0
    BY <1>0, <2>1, <2>2 DEF ReaderInv, CallsInOrder
  <2>5. \A c \in Calls : c[2] > attempt'[c[1]] => phase'[c] = "unsent"
    BY <1>0, <2>1, <2>3 DEF ReaderInv, ReaderTypeOK, CallsInOrder, Calls
  <2>6. \A i \in Jobs : stage'[i] \in {"ocr", "unread"} => phase'[<<i, attempt'[i], "llm">>] = "unsent"
    <3> SUFFICES ASSUME NEW i \in Jobs \ {j}, stage[i] \in {"ocr", "unread"}
                 PROVE  phase'[<<i, attempt[i], "llm">>] = "unsent"
      BY <2>1, <2>2
    <3>1. <<i, attempt[i], "llm">> \in Calls \ {n} /\ phase[<<i, attempt[i], "llm">>] = "unsent"
      BY DEF ReaderAssumption, ReaderInv, ReaderTypeOK, CallsInOrder, Calls, Services
    <3> QED BY <3>1, <2>3
  <2>7. \A i \in Jobs, a \in 1..Attempts : phase'[<<i, a, "llm">>] # "unsent" =>
          /\ phase'[<<i, a, "ocr">>] = "answered"
          /\ answer'[<<i, a, "ocr">>] \in {"part", "blank"}
    <3> SUFFICES ASSUME NEW i \in Jobs, NEW a \in 1..Attempts, phase'[<<i, a, "llm">>] # "unsent"
                 PROVE  /\ phase'[<<i, a, "ocr">>] = "answered"
                        /\ answer[<<i, a, "ocr">>] \in {"part", "blank"}
      BY <2>1
    <3>1. <<i, a, "llm">> \in Calls /\ <<i, a, "ocr">> \in Calls \ {n}
      BY DEF Calls, Services
    <3>2. CASE <<i, a, "llm">> = n
      BY <1>0, <2>3, <3>2
    <3>3. CASE <<i, a, "llm">> # n
      BY <2>3, <3>1, <3>3 DEF ReaderInv, CallsInOrder
    <3> QED BY <3>2, <3>3
  <2> QED BY <2>4, <2>5, <2>6, <2>7 DEF CallsInOrder
<1>3. AnswersFit'
  BY DEF ReaderAssumption, ReaderInv, ReaderTypeOK, AnswersFit, Phases, InService, OcrAnswers, LlmAnswers, Fallback, NoAnswer, Calls, Services, AskLlm, Send, AfterFailure, jobVars, callVars, modelVars
<1>4. BlankIsRefused'
  <2>1. answer' = answer /\ \A c \in Calls \ {n} : phase'[c] = phase[c]
    BY <1>0 DEF AskLlm, Send, ReaderInv, ReaderTypeOK
  <2>2. phase'[n] \notin Computing
    BY <1>0 DEF AskLlm, Send, ReaderInv, ReaderTypeOK, Computing
  <2> QED BY <1>0, <2>1, <2>2 DEF ReaderInv, BlankIsRefused, TextOf
<1>5. StageFits'
  BY DEF ReaderAssumption, ReaderInv, ReaderTypeOK, CallsInOrder, AnswersFit, BlankIsRefused, TextOf, StageFits, Stages, Phases, InService, Computing, OcrAnswers, LlmAnswers, Fallback, NoAnswer, Calls, Services, AskLlm, Send, AfterFailure, jobVars, callVars, modelVars
<1>6. OneAtATime'
  BY DEF ReaderAssumption, ReaderInv, ReaderTypeOK, OneAtATime, Phases, InService, Computing, Calls, Services, AskLlm, Send, AfterFailure, jobVars, callVars, modelVars
<1>7. OneModelPerProcess'
  BY DEF ReaderAssumption, ReaderInv, ReaderTypeOK, CallsInOrder, AnswersFit, OneAtATime, OneModelPerProcess, Phases, InService, Computing, Calls, Services, AskLlm, Send, AfterFailure, jobVars, callVars, modelVars
<1>8. QED
  BY <1>1, <1>2, <1>3, <1>4, <1>5, <1>6, <1>7 DEF ReaderInv

LEMMA HearKeeps ==
  ASSUME ReaderAssumption, ReaderInv, NEW j \in Jobs, NEW c \in Calls, Hear(j, c)
  PROVE  ReaderInv'
<1>1. ReaderTypeOK'
  BY DEF ReaderAssumption, ReaderInv, ReaderTypeOK, Stages, Phases, InService, OcrAnswers, LlmAnswers, Fallback, NoAnswer, Calls, Services, Hear, Awaited, Current, AfterAnswer, AfterFailure, jobVars, callVars, modelVars
<1>2. CallsInOrder'
  BY DEF ReaderAssumption, ReaderInv, ReaderTypeOK, CallsInOrder, Stages, Phases, InService, Calls, Services, NoAnswer, Hear, Awaited, Current, AfterAnswer, AfterFailure, jobVars, callVars, modelVars
<1>3. AnswersFit'
  BY DEF ReaderAssumption, ReaderInv, ReaderTypeOK, AnswersFit, Phases, InService, OcrAnswers, LlmAnswers, Fallback, NoAnswer, Calls, Services, Hear, Awaited, Current, AfterAnswer, AfterFailure, jobVars, callVars, modelVars
<1>4. BlankIsRefused'
  BY DEF ReaderAssumption, ReaderInv, ReaderTypeOK, CallsInOrder, AnswersFit, BlankIsRefused, TextOf, Phases, InService, Computing, NoAnswer, Calls, Services, Hear, Awaited, Current, AfterAnswer, AfterFailure, jobVars, callVars, modelVars
<1>5. StageFits'
  <2>1. /\ c = <<j, attempt[j], stage[j]>> /\ stage[j] \in Services /\ phase[c] = "answered"
        /\ stage' = [stage EXCEPT ![j] = AfterAnswer(j, c)]
        /\ attempt' = attempt /\ phase' = phase /\ answer' = answer
    BY DEF Hear, Awaited, Current, callVars
  <2>2. \A i \in Jobs \ {j} : stage'[i] = stage[i]
    BY <2>1 DEF ReaderInv, ReaderTypeOK
  <2>3. stage'[j] = AfterAnswer(j, c)
    BY <2>1 DEF ReaderInv, ReaderTypeOK
  <2>4. CASE stage[j] = "ocr"
    <3>1. c = <<j, attempt[j], "ocr">> /\ c[3] = "ocr" /\ answer[c] \in OcrAnswers
      BY <2>1, <2>4 DEF ReaderInv, AnswersFit
    <3>2. \/ stage'[j] = "saved" /\ answer[c] = "full"
          \/ stage'[j] \in {"failed", "idle"}
          \/ stage'[j] = "unread" /\ answer[c] \in {"part", "blank"}
      <4>1. CASE answer[c] = "full"
        BY <2>3, <4>1 DEF AfterAnswer
      <4>2. CASE answer[c] = "refused"
        BY <2>3, <4>2 DEF AfterAnswer, AfterFailure
      <4>3. CASE answer[c] \in {"part", "blank"}
        BY <2>3, <3>1, <4>3 DEF AfterAnswer
      <4> QED BY <3>1, <4>1, <4>2, <4>3 DEF OcrAnswers
    <3> QED BY <2>1, <2>2, <3>1, <3>2 DEF ReaderInv, StageFits
  <2>5. CASE stage[j] = "llm"
    <3> DEFINE t == <<j, attempt[j], "ocr">>
    <3>1. c = <<j, attempt[j], "llm">> /\ c[1] = j /\ c[2] = attempt[j] /\ c[3] = "llm"
          /\ answer[c] \in LlmAnswers
      BY <2>1, <2>5 DEF ReaderInv, AnswersFit
    <3>2. phase[t] = "answered" /\ answer[t] \in {"part", "blank"}
      BY <2>5 DEF ReaderInv, StageFits
    <3>3. answer[t] = "blank" => answer[c] \in {NoAnswer, "refused"}
      BY <3>1 DEF ReaderInv, BlankIsRefused, TextOf
    <3>4. \/ stage'[j] = "saved" /\ answer[c] = "full"
          \/ stage'[j] \in {"failed", "idle"}
          \/ stage'[j] = "skipped" /\ answer[c] \in {"part", "fallback"}
      BY <2>3, <3>1 DEF AfterAnswer, AfterFailure, LlmAnswers, Fallback
    <3>5. stage'[j] \in {"saved", "skipped"} => answer[t] = "part"
      BY <3>2, <3>3, <3>4 DEF NoAnswer
    <3> QED BY <2>1, <2>2, <3>1, <3>2, <3>4, <3>5 DEF ReaderInv, StageFits
  <2> QED BY <2>1, <2>4, <2>5 DEF Services
<1>6. OneAtATime'
  BY DEF ReaderAssumption, ReaderInv, ReaderTypeOK, OneAtATime, Phases, InService, Computing, Calls, Services, Hear, Awaited, Current, AfterAnswer, AfterFailure, jobVars, callVars, modelVars
<1>7. OneModelPerProcess'
  BY DEF ReaderAssumption, ReaderInv, ReaderTypeOK, CallsInOrder, AnswersFit, OneAtATime, OneModelPerProcess, Phases, InService, Computing, Calls, Services, Hear, Awaited, Current, AfterAnswer, AfterFailure, jobVars, callVars, modelVars
<1>8. QED
  BY <1>1, <1>2, <1>3, <1>4, <1>5, <1>6, <1>7 DEF ReaderInv

LEMMA GiveUpKeeps ==
  ASSUME ReaderAssumption, ReaderInv, NEW j \in Jobs, GiveUp(j)
  PROVE  ReaderInv'
<1>1. ReaderTypeOK'
  BY DEF ReaderAssumption, ReaderInv, ReaderTypeOK, Stages, Phases, InService, OcrAnswers, LlmAnswers, Fallback, NoAnswer, Calls, Services, GiveUp, AfterFailure, jobVars, callVars, modelVars
<1>2. CallsInOrder'
  BY DEF ReaderAssumption, ReaderInv, ReaderTypeOK, CallsInOrder, Stages, Phases, InService, Calls, Services, NoAnswer, GiveUp, AfterFailure, jobVars, callVars, modelVars
<1>3. AnswersFit'
  BY DEF ReaderAssumption, ReaderInv, ReaderTypeOK, AnswersFit, Phases, InService, OcrAnswers, LlmAnswers, Fallback, NoAnswer, Calls, Services, GiveUp, AfterFailure, jobVars, callVars, modelVars
<1>4. BlankIsRefused'
  BY DEF ReaderAssumption, ReaderInv, ReaderTypeOK, CallsInOrder, AnswersFit, BlankIsRefused, TextOf, Phases, InService, Computing, NoAnswer, Calls, Services, GiveUp, AfterFailure, jobVars, callVars, modelVars
<1>5. StageFits'
  BY DEF ReaderAssumption, ReaderInv, ReaderTypeOK, CallsInOrder, AnswersFit, BlankIsRefused, TextOf, StageFits, Stages, Phases, InService, Computing, OcrAnswers, LlmAnswers, Fallback, NoAnswer, Calls, Services, GiveUp, AfterFailure, jobVars, callVars, modelVars
<1>6. OneAtATime'
  BY DEF ReaderAssumption, ReaderInv, ReaderTypeOK, OneAtATime, Phases, InService, Computing, Calls, Services, GiveUp, AfterFailure, jobVars, callVars, modelVars
<1>7. OneModelPerProcess'
  BY DEF ReaderAssumption, ReaderInv, ReaderTypeOK, CallsInOrder, AnswersFit, OneAtATime, OneModelPerProcess, Phases, InService, Computing, Calls, Services, GiveUp, AfterFailure, jobVars, callVars, modelVars
<1>8. QED
  BY <1>1, <1>2, <1>3, <1>4, <1>5, <1>6, <1>7 DEF ReaderInv

LEMMA DropKeeps ==
  ASSUME ReaderAssumption, ReaderInv, NEW c \in Calls, Drop(c)
  PROVE  ReaderInv'
<1>1. ReaderTypeOK'
  BY DEF ReaderAssumption, ReaderInv, ReaderTypeOK, Stages, Phases, InService, OcrAnswers, LlmAnswers, Fallback, NoAnswer, Calls, Services, Drop, Moved, jobVars, callVars, modelVars
<1>2. CallsInOrder'
  BY DEF ReaderAssumption, ReaderInv, ReaderTypeOK, CallsInOrder, Stages, Phases, InService, Calls, Services, NoAnswer, Drop, Moved, jobVars, callVars, modelVars
<1>3. AnswersFit'
  BY DEF ReaderAssumption, ReaderInv, ReaderTypeOK, AnswersFit, Phases, InService, OcrAnswers, LlmAnswers, Fallback, NoAnswer, Calls, Services, Drop, Moved, jobVars, callVars, modelVars
<1>4. BlankIsRefused'
  BY DEF ReaderAssumption, ReaderInv, ReaderTypeOK, CallsInOrder, AnswersFit, BlankIsRefused, TextOf, Phases, InService, Computing, NoAnswer, Calls, Services, Drop, Moved, jobVars, callVars, modelVars
<1>5. StageFits'
  BY DEF ReaderAssumption, ReaderInv, ReaderTypeOK, CallsInOrder, AnswersFit, BlankIsRefused, TextOf, StageFits, Stages, Phases, InService, Computing, OcrAnswers, LlmAnswers, Fallback, NoAnswer, Calls, Services, Drop, Moved, jobVars, callVars, modelVars
<1>6. OneAtATime'
  BY DEF ReaderAssumption, ReaderInv, ReaderTypeOK, OneAtATime, Phases, InService, Computing, Calls, Services, Drop, Moved, jobVars, callVars, modelVars
<1>7. OneModelPerProcess'
  BY DEF ReaderAssumption, ReaderInv, ReaderTypeOK, CallsInOrder, AnswersFit, OneAtATime, OneModelPerProcess, Phases, InService, Computing, Calls, Services, Drop, Moved, jobVars, callVars, modelVars
<1>8. QED
  BY <1>1, <1>2, <1>3, <1>4, <1>5, <1>6, <1>7 DEF ReaderInv

LEMMA ServeOcrKeeps ==
  ASSUME ReaderAssumption, ReaderInv, NEW c \in Calls, ServeOcr(c)
  PROVE  ReaderInv'
<1>1. ReaderTypeOK'
  BY DEF ReaderAssumption, ReaderInv, ReaderTypeOK, Stages, Phases, InService, OcrAnswers, LlmAnswers, Fallback, NoAnswer, Calls, Services, ServeOcr, LoopFree, Moved, jobVars, callVars, modelVars
<1>2. CallsInOrder'
  BY DEF ReaderAssumption, ReaderInv, ReaderTypeOK, CallsInOrder, Stages, Phases, InService, Calls, Services, NoAnswer, ServeOcr, LoopFree, Moved, jobVars, callVars, modelVars
<1>3. AnswersFit'
  BY DEF ReaderAssumption, ReaderInv, ReaderTypeOK, AnswersFit, Phases, InService, OcrAnswers, LlmAnswers, Fallback, NoAnswer, Calls, Services, ServeOcr, LoopFree, Moved, jobVars, callVars, modelVars
<1>4. BlankIsRefused'
  BY DEF ReaderAssumption, ReaderInv, ReaderTypeOK, CallsInOrder, AnswersFit, BlankIsRefused, TextOf, Phases, InService, Computing, NoAnswer, Calls, Services, ServeOcr, LoopFree, Moved, jobVars, callVars, modelVars
<1>5. StageFits'
  BY DEF ReaderAssumption, ReaderInv, ReaderTypeOK, CallsInOrder, AnswersFit, BlankIsRefused, TextOf, StageFits, Stages, Phases, InService, Computing, OcrAnswers, LlmAnswers, Fallback, NoAnswer, Calls, Services, ServeOcr, LoopFree, Moved, jobVars, callVars, modelVars
<1>6. OneAtATime'
  BY DEF ReaderAssumption, ReaderInv, ReaderTypeOK, OneAtATime, Phases, InService, Computing, Calls, Services, ServeOcr, LoopFree, Moved, jobVars, callVars, modelVars
<1>7. OneModelPerProcess'
  BY DEF ReaderAssumption, ReaderInv, ReaderTypeOK, CallsInOrder, AnswersFit, OneAtATime, OneModelPerProcess, Phases, InService, Computing, Calls, Services, ServeOcr, LoopFree, Moved, jobVars, callVars, modelVars
<1>8. QED
  BY <1>1, <1>2, <1>3, <1>4, <1>5, <1>6, <1>7 DEF ReaderInv

LEMMA FinishOcrKeeps ==
  ASSUME ReaderAssumption, ReaderInv, NEW c \in Calls, NEW a \in OcrAnswers, FinishOcr(c, a)
  PROVE  ReaderInv'
<1>1. ReaderTypeOK'
  BY DEF ReaderAssumption, ReaderInv, ReaderTypeOK, Stages, Phases, InService, OcrAnswers, LlmAnswers, Fallback, NoAnswer, Calls, Services, FinishOcr, jobVars, callVars, modelVars
<1>2. CallsInOrder'
  BY DEF ReaderAssumption, ReaderInv, ReaderTypeOK, CallsInOrder, Stages, Phases, InService, Calls, Services, NoAnswer, FinishOcr, jobVars, callVars, modelVars
<1>3. AnswersFit'
  BY DEF ReaderAssumption, ReaderInv, ReaderTypeOK, AnswersFit, Phases, InService, OcrAnswers, LlmAnswers, Fallback, NoAnswer, Calls, Services, FinishOcr, jobVars, callVars, modelVars
<1>4. BlankIsRefused'
  BY DEF ReaderAssumption, ReaderInv, ReaderTypeOK, CallsInOrder, AnswersFit, BlankIsRefused, TextOf, Phases, InService, Computing, NoAnswer, Calls, Services, FinishOcr, jobVars, callVars, modelVars
<1>5. StageFits'
  BY DEF ReaderAssumption, ReaderInv, ReaderTypeOK, CallsInOrder, AnswersFit, BlankIsRefused, TextOf, StageFits, Stages, Phases, InService, Computing, OcrAnswers, LlmAnswers, Fallback, NoAnswer, Calls, Services, FinishOcr, jobVars, callVars, modelVars
<1>6. OneAtATime'
  BY DEF ReaderAssumption, ReaderInv, ReaderTypeOK, OneAtATime, Phases, InService, Computing, Calls, Services, FinishOcr, jobVars, callVars, modelVars
<1>7. OneModelPerProcess'
  BY DEF ReaderAssumption, ReaderInv, ReaderTypeOK, CallsInOrder, AnswersFit, OneAtATime, OneModelPerProcess, Phases, InService, Computing, Calls, Services, FinishOcr, jobVars, callVars, modelVars
<1>8. QED
  BY <1>1, <1>2, <1>3, <1>4, <1>5, <1>6, <1>7 DEF ReaderInv

LEMMA ReplyOcrKeeps ==
  ASSUME ReaderAssumption, ReaderInv, NEW c \in Calls, ReplyOcr(c)
  PROVE  ReaderInv'
<1>1. ReaderTypeOK'
  BY DEF ReaderAssumption, ReaderInv, ReaderTypeOK, Stages, Phases, InService, OcrAnswers, LlmAnswers, Fallback, NoAnswer, Calls, Services, ReplyOcr, Moved, jobVars, callVars, modelVars
<1>2. CallsInOrder'
  BY DEF ReaderAssumption, ReaderInv, ReaderTypeOK, CallsInOrder, Stages, Phases, InService, Calls, Services, NoAnswer, ReplyOcr, Moved, jobVars, callVars, modelVars
<1>3. AnswersFit'
  BY DEF ReaderAssumption, ReaderInv, ReaderTypeOK, AnswersFit, Phases, InService, OcrAnswers, LlmAnswers, Fallback, NoAnswer, Calls, Services, ReplyOcr, Moved, jobVars, callVars, modelVars
<1>4. BlankIsRefused'
  BY DEF ReaderAssumption, ReaderInv, ReaderTypeOK, CallsInOrder, AnswersFit, BlankIsRefused, TextOf, Phases, InService, Computing, NoAnswer, Calls, Services, ReplyOcr, Moved, jobVars, callVars, modelVars
<1>5. StageFits'
  BY DEF ReaderAssumption, ReaderInv, ReaderTypeOK, CallsInOrder, AnswersFit, BlankIsRefused, TextOf, StageFits, Stages, Phases, InService, Computing, OcrAnswers, LlmAnswers, Fallback, NoAnswer, Calls, Services, ReplyOcr, Moved, jobVars, callVars, modelVars
<1>6. OneAtATime'
  BY DEF ReaderAssumption, ReaderInv, ReaderTypeOK, OneAtATime, Phases, InService, Computing, Calls, Services, ReplyOcr, Moved, jobVars, callVars, modelVars
<1>7. OneModelPerProcess'
  BY DEF ReaderAssumption, ReaderInv, ReaderTypeOK, CallsInOrder, AnswersFit, OneAtATime, OneModelPerProcess, Phases, InService, Computing, Calls, Services, ReplyOcr, Moved, jobVars, callVars, modelVars
<1>8. QED
  BY <1>1, <1>2, <1>3, <1>4, <1>5, <1>6, <1>7 DEF ReaderInv

LEMMA RefuseBlankKeeps ==
  ASSUME ReaderAssumption, ReaderInv, NEW c \in Calls, RefuseBlank(c)
  PROVE  ReaderInv'
<1>1. ReaderTypeOK'
  BY DEF ReaderAssumption, ReaderInv, ReaderTypeOK, Stages, Phases, InService, OcrAnswers, LlmAnswers, Fallback, NoAnswer, Calls, Services, RefuseBlank, Valid, TextOf, Answered, jobVars, callVars, modelVars
<1>2. CallsInOrder'
  BY DEF ReaderAssumption, ReaderInv, ReaderTypeOK, CallsInOrder, Stages, Phases, InService, Calls, Services, NoAnswer, RefuseBlank, Valid, TextOf, Answered, jobVars, callVars, modelVars
<1>3. AnswersFit'
  BY DEF ReaderAssumption, ReaderInv, ReaderTypeOK, AnswersFit, Phases, InService, OcrAnswers, LlmAnswers, Fallback, NoAnswer, Calls, Services, RefuseBlank, Valid, TextOf, Answered, jobVars, callVars, modelVars
<1>4. BlankIsRefused'
  BY DEF ReaderAssumption, ReaderInv, ReaderTypeOK, CallsInOrder, AnswersFit, BlankIsRefused, TextOf, Phases, InService, Computing, NoAnswer, Calls, Services, RefuseBlank, Valid, Answered, jobVars, callVars, modelVars
<1>5. StageFits'
  BY DEF ReaderAssumption, ReaderInv, ReaderTypeOK, CallsInOrder, AnswersFit, BlankIsRefused, TextOf, StageFits, Stages, Phases, InService, Computing, OcrAnswers, LlmAnswers, Fallback, NoAnswer, Calls, Services, RefuseBlank, Valid, Answered, jobVars, callVars, modelVars
<1>6. OneAtATime'
  BY DEF ReaderAssumption, ReaderInv, ReaderTypeOK, OneAtATime, Phases, InService, Computing, Calls, Services, RefuseBlank, Valid, TextOf, Answered, jobVars, callVars, modelVars
<1>7. OneModelPerProcess'
  BY DEF ReaderAssumption, ReaderInv, ReaderTypeOK, CallsInOrder, AnswersFit, OneAtATime, OneModelPerProcess, Phases, InService, Computing, Calls, Services, RefuseBlank, Valid, TextOf, Answered, jobVars, callVars, modelVars
<1>8. QED
  BY <1>1, <1>2, <1>3, <1>4, <1>5, <1>6, <1>7 DEF ReaderInv

LEMMA ServeLlmKeeps ==
  ASSUME ReaderAssumption, ReaderInv, NEW c \in Calls, ServeLlm(c)
  PROVE  ReaderInv'
<1>1. ReaderTypeOK'
  BY DEF ReaderAssumption, ReaderInv, ReaderTypeOK, Stages, Phases, InService, OcrAnswers, LlmAnswers, Fallback, NoAnswer, Calls, Services, ServeLlm, Valid, LoopFree, TextOf, Moved, Available, jobVars, callVars, modelVars
<1>2. CallsInOrder'
  BY DEF ReaderAssumption, ReaderInv, ReaderTypeOK, CallsInOrder, Stages, Phases, InService, Calls, Services, NoAnswer, ServeLlm, Valid, LoopFree, TextOf, Moved, Available, jobVars, callVars, modelVars
<1>3. AnswersFit'
  BY DEF ReaderAssumption, ReaderInv, ReaderTypeOK, AnswersFit, Phases, InService, OcrAnswers, LlmAnswers, Fallback, NoAnswer, Calls, Services, ServeLlm, Valid, LoopFree, TextOf, Moved, Available, jobVars, callVars, modelVars
<1>4. BlankIsRefused'
  BY DEF ReaderAssumption, ReaderInv, ReaderTypeOK, CallsInOrder, AnswersFit, BlankIsRefused, TextOf, Phases, InService, Computing, NoAnswer, Calls, Services, ServeLlm, Valid, LoopFree, Moved, Available, jobVars, callVars, modelVars
<1>5. StageFits'
  BY DEF ReaderAssumption, ReaderInv, ReaderTypeOK, CallsInOrder, AnswersFit, BlankIsRefused, TextOf, StageFits, Stages, Phases, InService, Computing, OcrAnswers, LlmAnswers, Fallback, NoAnswer, Calls, Services, ServeLlm, Valid, LoopFree, Moved, Available, jobVars, callVars, modelVars
<1>6. OneAtATime'
  BY DEF ReaderAssumption, ReaderInv, ReaderTypeOK, OneAtATime, Phases, InService, Computing, Calls, Services, ServeLlm, Valid, LoopFree, TextOf, Moved, Available, jobVars, callVars, modelVars
<1>7. OneModelPerProcess'
  BY DEF ReaderAssumption, ReaderInv, ReaderTypeOK, CallsInOrder, AnswersFit, OneAtATime, OneModelPerProcess, Phases, InService, Computing, Calls, Services, ServeLlm, Valid, LoopFree, TextOf, Moved, Available, jobVars, callVars, modelVars
<1>8. QED
  BY <1>1, <1>2, <1>3, <1>4, <1>5, <1>6, <1>7 DEF ReaderInv

LEMMA LoadKeeps ==
  ASSUME ReaderAssumption, ReaderInv, NEW c \in Calls, Load(c)
  PROVE  ReaderInv'
<1>1. ReaderTypeOK'
  BY DEF ReaderAssumption, ReaderInv, ReaderTypeOK, Stages, Phases, InService, OcrAnswers, LlmAnswers, Fallback, NoAnswer, Calls, Services, Load, MakeModel, Moved, jobVars, callVars, modelVars
<1>2. CallsInOrder'
  BY DEF ReaderAssumption, ReaderInv, ReaderTypeOK, CallsInOrder, Stages, Phases, InService, Calls, Services, NoAnswer, Load, Moved, jobVars, callVars, modelVars
<1>3. AnswersFit'
  BY DEF ReaderAssumption, ReaderInv, ReaderTypeOK, AnswersFit, Phases, InService, OcrAnswers, LlmAnswers, Fallback, NoAnswer, Calls, Services, Load, MakeModel, Moved, jobVars, callVars, modelVars
<1>4. BlankIsRefused'
  BY DEF ReaderAssumption, ReaderInv, ReaderTypeOK, CallsInOrder, AnswersFit, BlankIsRefused, TextOf, Phases, InService, Computing, NoAnswer, Calls, Services, Load, MakeModel, Moved, jobVars, callVars, modelVars
<1>5. StageFits'
  BY DEF ReaderAssumption, ReaderInv, ReaderTypeOK, CallsInOrder, AnswersFit, BlankIsRefused, TextOf, StageFits, Stages, Phases, InService, Computing, OcrAnswers, LlmAnswers, Fallback, NoAnswer, Calls, Services, Load, MakeModel, Moved, jobVars, callVars, modelVars
<1>6. OneAtATime'
  BY DEF ReaderAssumption, ReaderInv, ReaderTypeOK, OneAtATime, Phases, InService, Computing, Calls, Services, Load, MakeModel, Moved, jobVars, callVars, modelVars
<1>7. OneModelPerProcess'
  BY DEF ReaderAssumption, ReaderInv, ReaderTypeOK, CallsInOrder, AnswersFit, OneAtATime, OneModelPerProcess, Phases, InService, Computing, Calls, Services, Load, MakeModel, Moved, jobVars, callVars, modelVars
<1>8. QED
  BY <1>1, <1>2, <1>3, <1>4, <1>5, <1>6, <1>7 DEF ReaderInv

LEMMA FailToLoadKeeps ==
  ASSUME ReaderAssumption, ReaderInv, NEW c \in Calls, FailToLoad(c)
  PROVE  ReaderInv'
<1>1. ReaderTypeOK'
  BY DEF ReaderAssumption, ReaderInv, ReaderTypeOK, Stages, Phases, InService, OcrAnswers, LlmAnswers, NoAnswer, Calls, Services, FailToLoad, Fallback, Answered, jobVars, callVars, modelVars
<1>2. CallsInOrder'
  BY DEF ReaderAssumption, ReaderInv, ReaderTypeOK, CallsInOrder, Stages, Phases, InService, Calls, Services, NoAnswer, FailToLoad, Answered, jobVars, callVars, modelVars
<1>3. AnswersFit'
  BY DEF ReaderAssumption, ReaderInv, ReaderTypeOK, AnswersFit, Phases, InService, OcrAnswers, LlmAnswers, NoAnswer, Calls, Services, FailToLoad, Fallback, Answered, jobVars, callVars, modelVars
<1>4. BlankIsRefused'
  BY DEF ReaderAssumption, ReaderInv, ReaderTypeOK, CallsInOrder, AnswersFit, BlankIsRefused, TextOf, Phases, InService, Computing, NoAnswer, Calls, Services, FailToLoad, Fallback, Answered, jobVars, callVars, modelVars
<1>5. StageFits'
  BY DEF ReaderAssumption, ReaderInv, ReaderTypeOK, CallsInOrder, AnswersFit, BlankIsRefused, TextOf, StageFits, Stages, Phases, InService, Computing, OcrAnswers, LlmAnswers, NoAnswer, Calls, Services, FailToLoad, Fallback, Answered, jobVars, callVars, modelVars
<1>6. OneAtATime'
  BY DEF ReaderAssumption, ReaderInv, ReaderTypeOK, OneAtATime, Phases, InService, Computing, Calls, Services, FailToLoad, Fallback, Answered, jobVars, callVars, modelVars
<1>7. OneModelPerProcess'
  BY DEF ReaderAssumption, ReaderInv, ReaderTypeOK, CallsInOrder, AnswersFit, OneAtATime, OneModelPerProcess, Phases, InService, Computing, Calls, Services, FailToLoad, Fallback, Answered, jobVars, callVars, modelVars
<1>8. QED
  BY <1>1, <1>2, <1>3, <1>4, <1>5, <1>6, <1>7 DEF ReaderInv

LEMMA FinishLlmKeeps ==
  ASSUME ReaderAssumption, ReaderInv, NEW c \in Calls, NEW a \in LlmAnswers \ {"refused"}, FinishLlm(c, a)
  PROVE  ReaderInv'
<1>1. ReaderTypeOK'
  BY DEF ReaderAssumption, ReaderInv, ReaderTypeOK, Stages, Phases, InService, OcrAnswers, LlmAnswers, Fallback, NoAnswer, Calls, Services, FinishLlm, Answered, jobVars, callVars, modelVars
<1>2. CallsInOrder'
  BY DEF ReaderAssumption, ReaderInv, ReaderTypeOK, CallsInOrder, Stages, Phases, InService, Calls, Services, NoAnswer, FinishLlm, Answered, jobVars, callVars, modelVars
<1>3. AnswersFit'
  BY DEF ReaderAssumption, ReaderInv, ReaderTypeOK, AnswersFit, Phases, InService, OcrAnswers, LlmAnswers, Fallback, NoAnswer, Calls, Services, FinishLlm, Answered, jobVars, callVars, modelVars
<1>4. BlankIsRefused'
  BY DEF ReaderAssumption, ReaderInv, ReaderTypeOK, CallsInOrder, AnswersFit, BlankIsRefused, TextOf, Phases, InService, Computing, NoAnswer, Calls, Services, FinishLlm, Answered, jobVars, callVars, modelVars
<1>5. StageFits'
  BY DEF ReaderAssumption, ReaderInv, ReaderTypeOK, CallsInOrder, AnswersFit, BlankIsRefused, TextOf, StageFits, Stages, Phases, InService, Computing, OcrAnswers, LlmAnswers, Fallback, NoAnswer, Calls, Services, FinishLlm, Answered, jobVars, callVars, modelVars
<1>6. OneAtATime'
  BY DEF ReaderAssumption, ReaderInv, ReaderTypeOK, OneAtATime, Phases, InService, Computing, Calls, Services, FinishLlm, Answered, jobVars, callVars, modelVars
<1>7. OneModelPerProcess'
  BY DEF ReaderAssumption, ReaderInv, ReaderTypeOK, CallsInOrder, AnswersFit, OneAtATime, OneModelPerProcess, Phases, InService, Computing, Calls, Services, FinishLlm, Answered, jobVars, callVars, modelVars
<1>8. QED
  BY <1>1, <1>2, <1>3, <1>4, <1>5, <1>6, <1>7 DEF ReaderInv

LEMMA StartKeeps ==
  ASSUME ReaderAssumption, ReaderInv, Start
  PROVE  ReaderInv'
<1>1. ReaderTypeOK'
  BY DEF ReaderAssumption, ReaderInv, ReaderTypeOK, Stages, Phases, InService, OcrAnswers, LlmAnswers, Fallback, NoAnswer, Calls, Services, Start, jobVars, callVars, modelVars
<1>2. CallsInOrder'
  BY DEF ReaderAssumption, ReaderInv, ReaderTypeOK, CallsInOrder, Stages, Phases, InService, Calls, Services, NoAnswer, Start, jobVars, callVars, modelVars
<1>3. AnswersFit'
  BY DEF ReaderAssumption, ReaderInv, ReaderTypeOK, AnswersFit, Phases, InService, OcrAnswers, LlmAnswers, Fallback, NoAnswer, Calls, Services, Start, jobVars, callVars, modelVars
<1>4. BlankIsRefused'
  BY DEF ReaderAssumption, ReaderInv, ReaderTypeOK, CallsInOrder, AnswersFit, BlankIsRefused, TextOf, Phases, InService, Computing, NoAnswer, Calls, Services, Start, jobVars, callVars, modelVars
<1>5. StageFits'
  BY DEF ReaderAssumption, ReaderInv, ReaderTypeOK, CallsInOrder, AnswersFit, BlankIsRefused, TextOf, StageFits, Stages, Phases, InService, Computing, OcrAnswers, LlmAnswers, Fallback, NoAnswer, Calls, Services, Start, jobVars, callVars, modelVars
<1>6. OneAtATime'
  BY DEF ReaderAssumption, ReaderInv, ReaderTypeOK, OneAtATime, Phases, InService, Computing, Calls, Services, Start, jobVars, callVars, modelVars
<1>7. OneModelPerProcess'
  BY DEF ReaderAssumption, ReaderInv, ReaderTypeOK, CallsInOrder, AnswersFit, OneAtATime, OneModelPerProcess, Phases, InService, Computing, Calls, Services, Start, jobVars, callVars, modelVars
<1>8. QED
  BY <1>1, <1>2, <1>3, <1>4, <1>5, <1>6, <1>7 DEF ReaderInv

LEMMA ReadyKeeps ==
  ASSUME ReaderAssumption, ReaderInv, Ready
  PROVE  ReaderInv'
<1>1. ReaderTypeOK'
  BY DEF ReaderAssumption, ReaderInv, ReaderTypeOK, Stages, Phases, InService, OcrAnswers, LlmAnswers, Fallback, NoAnswer, Calls, Services, Ready, LoadedAtStart, jobVars, callVars, modelVars
<1>2. CallsInOrder'
  BY DEF ReaderAssumption, ReaderInv, ReaderTypeOK, CallsInOrder, Stages, Phases, InService, Calls, Services, NoAnswer, Ready, LoadedAtStart, jobVars, callVars, modelVars
<1>3. AnswersFit'
  BY DEF ReaderAssumption, ReaderInv, ReaderTypeOK, AnswersFit, Phases, InService, OcrAnswers, LlmAnswers, Fallback, NoAnswer, Calls, Services, Ready, LoadedAtStart, jobVars, callVars, modelVars
<1>4. BlankIsRefused'
  BY DEF ReaderAssumption, ReaderInv, ReaderTypeOK, CallsInOrder, AnswersFit, BlankIsRefused, TextOf, Phases, InService, Computing, NoAnswer, Calls, Services, Ready, LoadedAtStart, jobVars, callVars, modelVars
<1>5. StageFits'
  BY DEF ReaderAssumption, ReaderInv, ReaderTypeOK, CallsInOrder, AnswersFit, BlankIsRefused, TextOf, StageFits, Stages, Phases, InService, Computing, OcrAnswers, LlmAnswers, Fallback, NoAnswer, Calls, Services, Ready, LoadedAtStart, jobVars, callVars, modelVars
<1>6. OneAtATime'
  BY DEF ReaderAssumption, ReaderInv, ReaderTypeOK, OneAtATime, Phases, InService, Computing, Calls, Services, Ready, LoadedAtStart, jobVars, callVars, modelVars
<1>7. OneModelPerProcess'
  BY DEF ReaderAssumption, ReaderInv, ReaderTypeOK, CallsInOrder, AnswersFit, OneAtATime, OneModelPerProcess, Phases, InService, Computing, Calls, Services, Ready, LoadedAtStart, jobVars, callVars, modelVars
<1>8. QED
  BY <1>1, <1>2, <1>3, <1>4, <1>5, <1>6, <1>7 DEF ReaderInv

LEMMA FailToStartKeeps ==
  ASSUME ReaderAssumption, ReaderInv, FailToStart
  PROVE  ReaderInv'
<1>1. ReaderTypeOK'
  BY DEF ReaderAssumption, ReaderInv, ReaderTypeOK, Stages, Phases, InService, OcrAnswers, LlmAnswers, Fallback, NoAnswer, Calls, Services, FailToStart, GoesWrong, jobVars, callVars, modelVars
<1>2. CallsInOrder'
  BY DEF ReaderAssumption, ReaderInv, ReaderTypeOK, CallsInOrder, Stages, Phases, InService, Calls, Services, NoAnswer, FailToStart, GoesWrong, jobVars, callVars, modelVars
<1>3. AnswersFit'
  BY DEF ReaderAssumption, ReaderInv, ReaderTypeOK, AnswersFit, Phases, InService, OcrAnswers, LlmAnswers, Fallback, NoAnswer, Calls, Services, FailToStart, GoesWrong, jobVars, callVars, modelVars
<1>4. BlankIsRefused'
  BY DEF ReaderAssumption, ReaderInv, ReaderTypeOK, CallsInOrder, AnswersFit, BlankIsRefused, TextOf, Phases, InService, Computing, NoAnswer, Calls, Services, FailToStart, GoesWrong, jobVars, callVars, modelVars
<1>5. StageFits'
  BY DEF ReaderAssumption, ReaderInv, ReaderTypeOK, CallsInOrder, AnswersFit, BlankIsRefused, TextOf, StageFits, Stages, Phases, InService, Computing, OcrAnswers, LlmAnswers, Fallback, NoAnswer, Calls, Services, FailToStart, GoesWrong, jobVars, callVars, modelVars
<1>6. OneAtATime'
  BY DEF ReaderAssumption, ReaderInv, ReaderTypeOK, OneAtATime, Phases, InService, Computing, Calls, Services, FailToStart, GoesWrong, jobVars, callVars, modelVars
<1>7. OneModelPerProcess'
  BY DEF ReaderAssumption, ReaderInv, ReaderTypeOK, CallsInOrder, AnswersFit, OneAtATime, OneModelPerProcess, Phases, InService, Computing, Calls, Services, FailToStart, GoesWrong, jobVars, callVars, modelVars
<1>8. QED
  BY <1>1, <1>2, <1>3, <1>4, <1>5, <1>6, <1>7 DEF ReaderInv

LEMMA CrashKeeps ==
  ASSUME ReaderAssumption, ReaderInv, Crash
  PROVE  ReaderInv'
<1>1. ReaderTypeOK'
  <2>1. /\ stage' = stage /\ attempt' = attempt /\ answer' = answer
        /\ server' = "down" /\ loaded' = FALSE /\ models' = 0
        /\ faults < MaxFaults /\ faults' = faults + 1
        /\ phase' = [c \in Calls |-> IF phase[c] \in InService THEN "lost" ELSE phase[c]]
    BY DEF Crash, GoesWrong, jobVars
  <2>2. phase' \in [Calls -> Phases]
    BY <2>1 DEF ReaderInv, ReaderTypeOK, Phases
  <2>3. \A c \in Calls : (phase'[c] = "unsent" => phase[c] = "unsent") /\ phase'[c] \notin InService
    BY <2>1 DEF InService
  <2>4. faults' \in 0..MaxFaults
    BY <2>1 DEF ReaderAssumption, ReaderInv, ReaderTypeOK
  <2> QED BY <2>1, <2>2, <2>3, <2>4 DEF ReaderInv, ReaderTypeOK
<1>2. CallsInOrder'
  BY DEF ReaderAssumption, ReaderInv, ReaderTypeOK, CallsInOrder, Stages, Phases, InService, Calls, Services, NoAnswer, Crash, GoesWrong, jobVars, callVars, modelVars
<1>3. AnswersFit'
  BY DEF ReaderAssumption, ReaderInv, ReaderTypeOK, AnswersFit, Phases, InService, OcrAnswers, LlmAnswers, Fallback, NoAnswer, Calls, Services, Crash, GoesWrong, jobVars, callVars, modelVars
<1>4. BlankIsRefused'
  BY DEF ReaderAssumption, ReaderInv, ReaderTypeOK, CallsInOrder, AnswersFit, BlankIsRefused, TextOf, Phases, InService, Computing, NoAnswer, Calls, Services, Crash, GoesWrong, jobVars, callVars, modelVars
<1>5. StageFits'
  BY DEF ReaderAssumption, ReaderInv, ReaderTypeOK, CallsInOrder, AnswersFit, BlankIsRefused, TextOf, StageFits, Stages, Phases, InService, Computing, OcrAnswers, LlmAnswers, Fallback, NoAnswer, Calls, Services, Crash, GoesWrong, jobVars, callVars, modelVars
<1>6. OneAtATime'
  BY DEF ReaderAssumption, ReaderInv, ReaderTypeOK, OneAtATime, Phases, InService, Computing, Calls, Services, Crash, GoesWrong, jobVars, callVars, modelVars
<1>7. OneModelPerProcess'
  BY DEF ReaderAssumption, ReaderInv, ReaderTypeOK, CallsInOrder, AnswersFit, OneAtATime, OneModelPerProcess, Phases, InService, Computing, Calls, Services, Crash, GoesWrong, jobVars, callVars, modelVars
<1>8. QED
  BY <1>1, <1>2, <1>3, <1>4, <1>5, <1>6, <1>7 DEF ReaderInv

\* The invariant holds initially: nothing has been asked or made.
LEMMA ReaderInitInv ==
  ASSUME ReaderAssumption, ReaderInit
  PROVE  ReaderInv
<1>1. ReaderTypeOK
  <2>1. 0 \in 0..Attempts /\ 0 \in 0..MaxFaults
    BY DEF ReaderAssumption
  <2>2. phase \in [Calls -> Phases] /\ \A c \in Calls : phase[c] = "unsent"
    BY DEF ReaderInit, Phases
  <2>3. answer \in [Calls -> OcrAnswers \cup LlmAnswers \cup {NoAnswer}]
        /\ \A c \in Calls : answer[c] = NoAnswer
    BY DEF ReaderInit
  <2>4. stage \in [Jobs -> Stages] /\ attempt \in [Jobs -> 0..Attempts]
    BY <2>1 DEF ReaderInit, Stages
  <2> QED BY <2>1, <2>2, <2>3, <2>4 DEF ReaderInit, ReaderTypeOK, InService
<1>2. CallsInOrder
  BY DEF ReaderAssumption, ReaderInit, CallsInOrder, Calls, Services
<1>3. AnswersFit /\ BlankIsRefused /\ StageFits /\ OneAtATime /\ OneModelPerProcess
  BY DEF ReaderInit, AnswersFit, BlankIsRefused, TextOf, StageFits, OneAtATime, OneModelPerProcess,
         Computing, NoAnswer
<1> QED BY <1>1, <1>2, <1>3 DEF ReaderInv

LEMMA ReaderNextInv ==
  ASSUME ReaderAssumption, ReaderInv, ReaderNext
  PROVE  ReaderInv'
<1>1. CASE \E j \in Jobs : Backend(j)
  BY <1>1, AskOcrKeeps, AskLlmKeeps, HearKeeps, GiveUpKeeps DEF Backend
<1>2. CASE \E c \in Calls : Work(c) \/ Drop(c)
  BY <1>2, ServeOcrKeeps, FinishOcrKeeps, ReplyOcrKeeps, RefuseBlankKeeps, ServeLlmKeeps,
     LoadKeeps, FailToLoadKeeps, FinishLlmKeeps, DropKeeps DEF Work
<1>3. CASE Start \/ Ready \/ FailToStart \/ Crash
  BY <1>3, StartKeeps, ReadyKeeps, FailToStartKeeps, CrashKeeps
<1> QED BY <1>1, <1>2, <1>3 DEF ReaderNext

LEMMA ReaderStutter ==
  ASSUME ReaderInv, UNCHANGED readerVars
  PROVE  ReaderInv'
BY DEF readerVars, jobVars, callVars, modelVars, ReaderInv, ReaderTypeOK, CallsInOrder, AnswersFit,
       BlankIsRefused, TextOf, StageFits, OneAtATime, OneModelPerProcess

\* The invariant bounds the work that is left behind: the number of an attempt
\* tells apart the calls that a job has left in the service.
LEMMA LeftBehindBounded ==
  ASSUME ReaderAssumption, ReaderInv
  PROVE  AbandonedWorkBounded
<1> SUFFICES ASSUME NEW j \in Jobs
             PROVE  Cardinality(LeftBehind(j)) <= IF stage[j] \in Services THEN attempt[j] - 1 ELSE attempt[j]
  BY DEF AbandonedWorkBounded
<1> DEFINE S == LeftBehind(j)
           n == IF stage[j] \in Services THEN attempt[j] - 1 ELSE attempt[j]
           f == [c \in S |-> c[2]]
<1>1. attempt[j] \in Nat /\ (stage[j] # "idle" => attempt[j] # 0)
  BY DEF ReaderAssumption, ReaderInv, ReaderTypeOK, CallsInOrder
<1>2. n \in Nat
  BY <1>1 DEF Services
<1>3. ASSUME NEW c \in S
      PROVE  c[2] \in 1..n
  <2>1. /\ c \in Calls /\ c[1] = j /\ phase[c] \in InService /\ Abandoned(c)
        /\ c = <<j, c[2], c[3]>> /\ c[2] \in 1..Attempts /\ c[3] \in Services
    BY DEF LeftBehind, Calls
  <2>2. c[2] <= attempt[j]
    BY <1>1, <2>1 DEF ReaderAssumption, ReaderInv, CallsInOrder, InService
  <2>3. ASSUME stage[j] \in Services, c[2] = attempt[j]
        PROVE  FALSE
    <3>1. c # <<j, attempt[j], stage[j]>>
      BY <2>1, <2>3 DEF Abandoned, Current
    <3>2. CASE stage[j] = "ocr"
      <4>1. c = <<j, attempt[j], "llm">>
        BY <2>1, <2>3, <3>1, <3>2 DEF Services
      <4> QED BY <2>1, <3>2, <4>1 DEF ReaderInv, CallsInOrder, InService
    <3>3. CASE stage[j] = "llm"
      <4>1. c = <<j, attempt[j], "ocr">>
        BY <2>1, <2>3, <3>1, <3>3 DEF Services
      <4> QED BY <2>1, <3>3, <4>1 DEF ReaderInv, StageFits, InService
    <3> QED BY <2>3, <3>2, <3>3 DEF Services
  <2> QED BY <1>1, <2>1, <2>2, <2>3 DEF ReaderAssumption
<1>4. ASSUME NEW c \in S, NEW d \in S, c[2] = d[2]
      PROVE  c = d
  <2>1. /\ c = <<j, c[2], c[3]>> /\ c[2] \in 1..Attempts /\ c[3] \in Services /\ phase[c] \in InService
        /\ d = <<j, c[2], d[3]>> /\ d[3] \in Services /\ phase[d] \in InService
    BY <1>4 DEF LeftBehind, Calls
  <2>2. ASSUME phase[<<j, c[2], "ocr">>] \in InService, phase[<<j, c[2], "llm">>] \in InService
        PROVE  FALSE
    BY <2>1, <2>2 DEF ReaderInv, CallsInOrder, InService
  <2> QED BY <2>1, <2>2 DEF Services
<1>5. f \in Injection(S, 1..n)
  <2>1. f \in [S -> 1..n]
    BY <1>3
  <2>2. \A c, d \in S : f[c] = f[d] => c = d
    BY <1>4
  <2> QED BY <2>1, <2>2 DEF Injection, IsInjective
<1>6. IsFiniteSet(1..n) /\ Cardinality(1..n) = n
  <2>1. /\ IsFiniteSet(1..n)
        /\ Cardinality(1..n) = IF 1 > n THEN 0 ELSE n - 1 + 1
    BY <1>2, FS_Interval
  <2> QED BY <1>2, <2>1
<1>7. Cardinality(S) <= Cardinality(1..n)
  <2> HIDE DEF S, f
  <2> QED BY <1>5, <1>6, FS_Injection
<1> QED BY <1>6, <1>7

-----------------------------------------------------------------------------

\* The inductive invariant holds in every reachable state.
THEOREM ReaderInvariant == ReaderSafeSpec => []ReaderInv
<1>1. ReaderInit => ReaderInv
  BY ReaderAssumption, ReaderInitInv
<1>2. ReaderInv /\ [ReaderNext]_readerVars => ReaderInv'
  BY ReaderAssumption, ReaderNextInv, ReaderStutter
<1> QED BY <1>1, <1>2, PTL DEF ReaderSafeSpec

\* A job ends by the answers to its own last attempt: LlmService and OcrService
\* await one answer each, and the backend saves no receipt that lacks a field.
THEOREM JobsEndByTheirAnswers == ReaderSafeSpec => []LastAttemptDecides
<1>1. ReaderInv => LastAttemptDecides
  BY DEF ReaderInv, StageFits, LastAttemptDecides
<1> QED BY <1>1, ReaderInvariant, PTL

\* get_llm_service makes one LLM per process of the service.
THEOREM OneModel == ReaderSafeSpec => []OneModelPerProcess
<1>1. ReaderInv => OneModelPerProcess
  BY DEF ReaderInv
<1> QED BY <1>1, ReaderInvariant, PTL

\* The retries of a job leave at most one call each behind in the service.
THEOREM AbandonedWork == ReaderSafeSpec => []AbandonedWorkBounded
<1>1. ReaderInv => AbandonedWorkBounded
  BY ReaderAssumption, LeftBehindBounded
<1> QED BY <1>1, ReaderInvariant, PTL

=============================================================================
