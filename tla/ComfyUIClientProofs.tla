------------------------- MODULE ComfyUIClientProofs -------------------------
(***************************************************************************)
(* The theorems about ComfyUIClient, for any images, timeouts and numbers  *)
(* of attempts and faults.                                                 *)
(***************************************************************************)
EXTENDS ComfyUIClient, TLAPS

-----------------------------------------------------------------------------
(* The invariant.                                                          *)

Workflows == [image : Images, seed : 1..MaxAttempts]
Entries == {NoEntry} \cup [status : {"image"}, file : Nat] \cup [status : {"error"}]
Paths == (Nat \X Nat) \cup {NoPath}
Positions(s) == 1..Len(s)

WorkerTyped ==
    /\ clock \in Nat /\ since \in Nat /\ beat \in Nat
    /\ pc \in {"loop", "pop", "submit", "check", "ask", "sleep", "view"}
    /\ image \in Images /\ prompt \in Nat
    /\ deadline \in Nat /\ filename \in Nat
    /\ verdict \in {"none", "saved", "timeout", "error", "http"}
    /\ seed \in [Images -> 0..MaxAttempts] /\ path \in [Images -> Paths]
    /\ attempts \in 0..MaxAttempts
ServerTyped ==
    /\ sent \in Seq(Workflows) /\ pending \in Seq(Nat) /\ outputs \in Seq(Nat)
    /\ cached \subseteq Workflows
    /\ history \in [Prompts -> Entries]
    /\ finished \in [Prompts -> Nat]
Typed == WorkerTyped /\ ServerTyped

(* The worker's own prompt is one that ComfyUI accepted for its image.     *)
InCall == pc \in {"check", "ask", "sleep", "view"}
OwnPrompt == InCall => prompt \in Positions(sent) /\ sent[prompt].image = image

(* Every attempt has a seed of its own, and the prompts carry them in the  *)
(* order of the attempts.                                                  *)
SeedsRise ==
    /\ pc = "submit" => seed[image] = attempts /\ Len(sent) < attempts
    /\ Len(sent) <= attempts
    /\ \A p \in Positions(sent) : sent[p].seed < attempts + (IF pc = "submit" THEN 0 ELSE 1)
    /\ \A p, q \in Positions(sent) : p < q => sent[p].seed < sent[q].seed

(* ComfyUI works through the prompts in their order: what is in its cache, *)
(* or among its files, is of an earlier prompt than any that is pending.   *)
InOrder ==
    /\ \A n \in Positions(pending) : pending[n] \in Positions(sent)
    /\ \A m, n \in Positions(pending) : m < n => pending[m] < pending[n]
    /\ \A c \in cached : \E p \in Positions(sent) : c = sent[p]
    /\ \A c \in cached, n \in Positions(pending) : c.seed < sent[pending[n]].seed
    /\ \A n \in Positions(outputs) : outputs[n] \in Positions(sent) /\ n <= outputs[n]
    /\ \A m \in Positions(outputs), n \in Positions(pending) : outputs[m] < pending[n]

(* An entry names an output file of its own prompt; the worker asks for    *)
(* that file or, after a restart of ComfyUI, for one that is not there and *)
(* will not be there before the next prompt.                               *)
EntriesAreOwn ==
    /\ \A p \in Prompts : history[p].status = "image" =>
          history[p].file \in Positions(outputs) /\ outputs[history[p].file] = p
    /\ pc = "view" => /\ filename # 0
                      /\ \/ filename \in Positions(outputs) /\ outputs[filename] = prompt
                         \/ outputs = <<>> /\ pending = <<>>

(* A row's path has the number of a prompt for this very image, and so has *)
(* what the file was rendered for.                                         *)
PathsAreOwn ==
    \A i \in Images : path[i] # NoPath =>
        /\ path[i][1] \in Positions(sent) /\ sent[path[i][1]].image = i
        /\ \E f \in files : /\ f.name = path[i]
                            /\ f.of \in Positions(sent) /\ sent[f.of].image = i

(* Where the clock may be.                                                 *)
CallStart == beat + PopTimeout + MaxDelay
Clocks ==
    /\ since <= clock /\ clock <= since + Limit
    /\ pc = "loop" => clock - beat <= MaxSilence
    /\ pc = "pop" => since = beat
    /\ pc = "submit" => since <= beat + PopTimeout
    /\ InCall => deadline <= CallStart + Timeout
    /\ pc = "check" => clock <= deadline - 1 + MaxDelay + PollInterval
    /\ pc = "ask" => since <= deadline - 1
    /\ pc \in {"sleep", "view"} => since <= deadline - 1 + MaxDelay

(* When the entry of the worker's prompt has appeared, if it has: after    *)
(* the last poll was sent.                                                 *)
Appeared == history[prompt] # NoEntry
PollsAreFresh ==
    /\ pc = "check" => \/ clock < deadline
                       \/ Appeared => finished[prompt] >= clock - PollInterval - MaxDelay
    /\ pc = "sleep" => (Appeared => finished[prompt] >= since - MaxDelay)
    /\ pc \in {"loop", "pop"} /\ verdict = "timeout" =>
          /\ prompt \in Prompts
          /\ clock >= deadline
          /\ Appeared => finished[prompt] >= deadline - PollInterval - MaxDelay

Inv == Typed /\ OwnPrompt /\ SeedsRise /\ InOrder /\ EntriesAreOwn /\ PathsAreOwn
         /\ Clocks /\ PollsAreFresh

(* What ConstantsAssumption says of each constant.                         *)
LEMMA Constants ==
    /\ PopTimeout \in Nat /\ MaxDelay \in Nat /\ PollInterval \in Nat /\ Timeout \in Nat
    /\ MaxDelay > 0 /\ PollInterval > 0 /\ Timeout > 0 /\ PopTimeout > 0
    /\ MaxAttempts \in Nat /\ MaxClock \in Nat
  BY TimeAssumption

(* The invariant holds when worker and ComfyUI have started.               *)
LEMMA InitInv == Init => Inv
<1> SUFFICES ASSUME Init PROVE Inv
  OBVIOUS
<1> USE Constants DEF Init, NoPath, NoEntry, Positions
<1>1. Typed
  BY DEF Typed, WorkerTyped, ServerTyped, Entries, Paths
<1>2. OwnPrompt /\ SeedsRise /\ InOrder /\ PathsAreOwn /\ PollsAreFresh
  BY DEF OwnPrompt, InCall, SeedsRise, InOrder, PathsAreOwn, PollsAreFresh
<1>3. EntriesAreOwn
  BY DEF EntriesAreOwn
<1>4. Clocks
  BY DEF Clocks, InCall, Limit, MaxSilence
<1> QED BY <1>1, <1>2, <1>3, <1>4 DEF Inv

-----------------------------------------------------------------------------
(* The queue of ComfyUI.                                                   *)

(* The prompt that is executed next is an accepted one, and the first.     *)
LEMMA NextPrompt ==
    ASSUME Typed, InOrder, SeedsRise, pending # <<>>
    PROVE  /\ Head(pending) \in Positions(sent) /\ Head(pending) \in Prompts
           /\ Head(pending) = pending[1] /\ 1 \in Positions(pending)
           /\ Tail(pending) \in Seq(Nat)
           /\ Len(Tail(pending)) = Len(pending) - 1
           /\ \A n \in Positions(Tail(pending)) :
                 Tail(pending)[n] = pending[n + 1] /\ n + 1 \in Positions(pending)
           /\ \A n \in Positions(Tail(pending)) : Head(pending) < Tail(pending)[n]
           /\ sent[Head(pending)] \notin cached
<1>1. /\ Head(pending) = pending[1] /\ 1 \in Positions(pending)
      /\ Tail(pending) \in Seq(Nat)
      /\ Len(Tail(pending)) = Len(pending) - 1
      /\ \A n \in Positions(Tail(pending)) :
            Tail(pending)[n] = pending[n + 1] /\ n + 1 \in Positions(pending)
  BY DEF Typed, WorkerTyped, ServerTyped, Positions
<1>2. Head(pending) \in Positions(sent)
  BY <1>1 DEF InOrder
<1>3. Head(pending) \in Prompts
  BY <1>2, Constants DEF Typed, WorkerTyped, ServerTyped, SeedsRise, Positions, Prompts
<1>4. \A n \in Positions(Tail(pending)) : Head(pending) < Tail(pending)[n]
  <2> SUFFICES ASSUME NEW n \in Positions(Tail(pending))
               PROVE  pending[1] < pending[n + 1]
    BY <1>1
  <2>1. 1 < n + 1
    BY DEF Positions
  <2> QED BY <1>1, <2>1 DEF InOrder
<1>5. sent[Head(pending)] \notin cached
  <2> SUFFICES ASSUME sent[Head(pending)] \in cached PROVE FALSE
    OBVIOUS
  <2>1. sent[pending[1]].seed < sent[pending[1]].seed
    BY <1>1 DEF InOrder
  <2>2. sent[pending[1]].seed \in Int
    BY <1>1, <1>2 DEF Typed, ServerTyped, Workflows, Positions
  <2> QED BY <2>1, <2>2
<1> QED BY <1>1, <1>2, <1>3, <1>4, <1>5

(* So a prompt is never answered from the cache.                           *)
Renders ==
    LET p == Head(pending) IN
    /\ pending # <<>>
    /\ \/ /\ history' = [history EXCEPT ![p] = [status |-> "image", file |-> Len(outputs) + 1]]
          /\ cached' = cached \cup {sent[p]}
          /\ outputs' = Append(outputs, p)
       \/ /\ history' = [history EXCEPT ![p] = [status |-> "error"]]
          /\ UNCHANGED <<cached, outputs>>
    /\ pending' = Tail(pending)
    /\ finished' = [finished EXCEPT ![p] = clock]
    /\ UNCHANGED <<sent, clock, workerVars, faults>>

(* ComfyUI takes its oldest prompt, whose seed is above all it rendered    *)
(* before.                                                                 *)
LEMMA ExecuteRenders ==
    ASSUME Typed, InOrder, SeedsRise, Execute
    PROVE  Renders
  BY NextPrompt DEF Execute, Renders

-----------------------------------------------------------------------------
(* Each conjunct is kept.                                                  *)

(* The worker's prompt is one the bound allows.                            *)
LEMMA InCallPrompt ==
    ASSUME Typed, OwnPrompt, SeedsRise, InCall
    PROVE  prompt \in Positions(sent) /\ prompt \in Prompts /\ sent[prompt].image = image
<1>1. prompt \in Positions(sent) /\ sent[prompt].image = image
  BY DEF OwnPrompt
<1>2. Len(sent) \in Nat /\ Len(sent) <= attempts /\ attempts \in 0..MaxAttempts
  BY DEF Typed, ServerTyped, WorkerTyped, SeedsRise
<1>3. prompt \in Prompts
  BY <1>1, <1>2, Constants DEF Positions, Prompts
<1> QED BY <1>1, <1>3

(* Steps keep the types of what the client keeps of its call.              *)
LEMMA WorkerTypedStep ==
    ASSUME Inv, [Next]_vars
    PROVE  WorkerTyped'
<1> USE DEF WorkerTyped
<1>0. Typed /\ OwnPrompt /\ SeedsRise
  BY DEF Inv
<1> USE <1>0 DEF Typed, workerVars, Goto, Fail
<1>1. CASE Tick
  BY <1>1 DEF Tick
<1>2. CASE Loop
  BY <1>2 DEF Loop, TouchHeartbeat
<1>3. CASE PopNothing
  BY <1>3 DEF PopNothing
<1>4. ASSUME NEW i \in Images, PopImage(i) PROVE WorkerTyped'
  BY <1>4, Constants DEF PopImage, SeedFor
<1>5. CASE Submit
  <2>1. Len(sent') \in Nat
    BY <1>5 DEF Submit, Accept, ServerTyped
  <2> QED BY <1>5, <2>1, Constants DEF Submit
<1>6. CASE CheckDeadline
  BY <1>6 DEF CheckDeadline
<1>7. CASE Ask
  <2>1. prompt \in Prompts
    BY <1>7, InCallPrompt DEF Ask, InCall
  <2>2. history[prompt] \in Entries
    BY <2>1 DEF ServerTyped
  <2>3. history[prompt].status # "empty"
    BY <2>2 DEF Entries, NoEntry
  <2>4. history[prompt].status = "image" => history[prompt].file \in Nat
    BY <2>2 DEF Entries, NoEntry
  <2> QED BY <1>7, <2>3, <2>4 DEF Ask, DeadlineAfterPoll
<1>8. CASE Wake
  BY <1>8 DEF Wake
<1>9. CASE View
  <2>1. OutPath(prompt, filename) \in Paths
    BY DEF OutPath, Paths
  <2> QED BY <1>9, <2>1 DEF View
<1>10. CASE RequestFails
  BY <1>10 DEF RequestFails
<1>11. CASE Execute \/ Recreate \/ UNCHANGED vars
  BY <1>11 DEF Execute, Recreate, vars
<1> QED BY <1>1, <1>2, <1>3, <1>4, <1>5, <1>6, <1>7, <1>8, <1>9, <1>10, <1>11 DEF Next

(* What may happen to ComfyUI.                                             *)
LEMMA ServerSteps ==
    ASSUME [Next]_vars
    PROVE  \/ Execute
           \/ Recreate
           \/ pc = "submit" /\ Accept
           \/ UNCHANGED serverVars
<1> QED
  BY DEF Next, vars, Tick, Loop, PopNothing, PopImage, Submit, CheckDeadline, Ask, Wake,
     View, RequestFails

(* Steps keep the types of what ComfyUI keeps.                             *)
LEMMA ServerTypedStep ==
    ASSUME Inv, [Next]_vars
    PROVE  ServerTyped'
<1>0. Typed /\ InOrder /\ SeedsRise
  BY DEF Inv
<1> USE <1>0 DEF Typed, ServerTyped
<1>1. CASE pc = "submit" /\ Accept
  <2>1. [image |-> image, seed |-> seed[image]] \in Workflows
    BY <1>1, Constants DEF SeedsRise, Workflows, WorkerTyped
  <2>2. sent' \in Seq(Workflows)
    BY <1>1, <2>1 DEF Accept
  <2>3. pending' \in Seq(Nat)
    BY <1>1, <2>2 DEF Accept
  <2> QED BY <1>1, <2>2, <2>3 DEF Accept
<1>2. CASE Execute
  <2>1. Renders
    BY <1>2, ExecuteRenders
  <2>2. Head(pending) \in Prompts /\ Head(pending) \in Nat /\ Tail(pending) \in Seq(Nat)
    BY <2>1, NextPrompt DEF Renders, Prompts
  <2>3. sent[Head(pending)] \in Workflows
    BY <2>1, NextPrompt DEF Renders, Positions
  <2>4. /\ [status |-> "image", file |-> Len(outputs) + 1] \in Entries
        /\ [status |-> "error"] \in Entries
    BY DEF Entries
  <2>5. history' \in [Prompts -> Entries]
    BY <2>1, <2>4 DEF Renders
  <2>6. Append(outputs, Head(pending)) \in Seq(Nat)
    BY <2>2
  <2>8. cached' \subseteq Workflows /\ outputs' \in Seq(Nat)
    BY <2>1, <2>3, <2>6, Zenon DEF Renders
  <2>7. finished' \in [Prompts -> Nat]
    BY <2>1 DEF Renders, WorkerTyped
  <2> QED BY <2>1, <2>2, <2>5, <2>8, <2>7 DEF Renders
<1>3. CASE Recreate
  BY <1>3 DEF Recreate, Entries
<1>4. CASE UNCHANGED serverVars
  BY <1>4 DEF serverVars
<1> QED BY <1>1, <1>2, <1>3, <1>4, ServerSteps

(* The numbers in what was sent.                                           *)
LEMMA Ranges ==
    ASSUME Typed
    PROVE  /\ attempts \in Nat /\ Len(sent) \in Nat /\ Len(pending) \in Nat
           /\ Len(outputs) \in Nat
           /\ \A p \in Positions(sent) : p \in Nat /\ sent[p].seed \in Nat
           /\ \A c \in cached : c.seed \in Nat
           /\ \A n \in Positions(pending) : n \in Nat /\ pending[n] \in Nat
           /\ \A n \in Positions(outputs) : n \in Nat /\ outputs[n] \in Nat
<1>1. /\ sent \in Seq(Workflows) /\ pending \in Seq(Nat) /\ outputs \in Seq(Nat)
      /\ cached \subseteq Workflows /\ attempts \in 0..MaxAttempts
  BY DEF Typed, ServerTyped, WorkerTyped
<1>2. \A w \in Workflows : w.seed \in Nat
  BY Constants DEF Workflows
<1>3. \A p \in Positions(sent) : p \in Nat /\ sent[p] \in Workflows
  BY <1>1 DEF Positions
<1>4. /\ \A n \in Positions(pending) : n \in Nat /\ pending[n] \in Nat
      /\ \A n \in Positions(outputs) : n \in Nat /\ outputs[n] \in Nat
  BY <1>1 DEF Positions
<1>5. /\ attempts \in Nat /\ Len(sent) \in Nat /\ Len(pending) \in Nat
      /\ Len(outputs) \in Nat
  BY <1>1, Constants
<1> QED BY <1>1, <1>2, <1>3, <1>4, <1>5

(* What a call adds to ComfyUI's queue.                                    *)
LEMMA Accepted ==
    ASSUME Typed, SeedsRise, InOrder, pc = "submit", Accept
    PROVE  LET p == Len(sent) + 1 IN
           /\ Len(sent') = p /\ p \in Nat /\ p <= attempts
           /\ Positions(sent') = Positions(sent) \cup {p} /\ p \notin Positions(sent)
           /\ sent'[p] = [image |-> image, seed |-> attempts]
           /\ \A q \in Positions(sent) : sent'[q] = sent[q]
           /\ Positions(pending') = Positions(pending) \cup {Len(pending) + 1}
           /\ pending'[Len(pending) + 1] = p
           /\ \A n \in Positions(pending) : pending'[n] = pending[n]
<1>1. sent \in Seq(Workflows) /\ pending \in Seq(Nat) /\ attempts \in Nat
  BY Constants DEF Typed, ServerTyped, WorkerTyped
<1>2. sent' = Append(sent, [image |-> image, seed |-> attempts])
  BY DEF Accept, SeedsRise
<1>3. Len(sent') = Len(sent) + 1 /\ Len(sent) \in Nat
  BY <1>1, <1>2
<1>4. pending' = Append(pending, Len(sent) + 1)
  BY <1>3 DEF Accept
<1>5. Len(sent) + 1 <= attempts
  BY <1>1, <1>3 DEF SeedsRise
<1>6. /\ Positions(sent') = Positions(sent) \cup {Len(sent) + 1}
      /\ Len(sent) + 1 \notin Positions(sent)
  BY <1>3 DEF Positions
<1>7. /\ sent'[Len(sent) + 1] = [image |-> image, seed |-> attempts]
      /\ \A q \in Positions(sent) : sent'[q] = sent[q]
  BY <1>1, <1>2 DEF Positions
<1>8. /\ Positions(pending') = Positions(pending) \cup {Len(pending) + 1}
      /\ pending'[Len(pending) + 1] = Len(sent) + 1
      /\ \A n \in Positions(pending) : pending'[n] = pending[n]
  BY <1>1, <1>4 DEF Positions
<1> QED BY <1>3, <1>5, <1>6, <1>7, <1>8

(* Only a call that submits adds to what was sent.                         *)
LEMMA SentGrows ==
    ASSUME [Next]_vars
    PROVE  \/ UNCHANGED sent
           \/ /\ pc = "submit" /\ pc' \in {"check", "loop"} /\ Accept
              /\ UNCHANGED <<seed, attempts, image, path, files>>
              /\ pc' = "check" => prompt' = Len(sent')
<1> QED
  BY DEF Next, vars, workerVars, serverVars, Tick, Loop, PopNothing, PopImage, Submit,
     CheckDeadline, Ask, Wake, View, RequestFails, Execute, Recreate, Goto, Fail

(* What happens to the worker's own call.                                  *)
LEMMA CallGoesOn ==
    ASSUME [Next]_vars, InCall'
    PROVE  \/ InCall /\ UNCHANGED <<prompt, image, sent>>
           \/ pc = "submit" /\ pc' = "check" /\ Accept /\ prompt' = Len(sent') /\ UNCHANGED image
<1> QED
  BY DEF Next, vars, workerVars, serverVars, Tick, Loop, PopNothing, PopImage, Submit,
     CheckDeadline, Ask, Wake, View, RequestFails, Execute, Recreate, Goto, Fail, InCall

(* The prompt a call waits for stays one of its own image.                 *)
LEMMA OwnPromptStep ==
    ASSUME Inv, [Next]_vars
    PROVE  OwnPrompt'
<1>0. Typed /\ OwnPrompt /\ SeedsRise /\ InOrder
  BY DEF Inv
<1> SUFFICES ASSUME InCall'
             PROVE  prompt' \in Positions(sent') /\ sent'[prompt'].image = image'
  BY DEF OwnPrompt, Positions
<1>1. CASE InCall /\ UNCHANGED <<prompt, image, sent>>
  BY <1>0, <1>1 DEF OwnPrompt
<1>2. CASE pc = "submit" /\ Accept /\ prompt' = Len(sent') /\ UNCHANGED image
  BY <1>0, <1>2, Accepted
<1> QED BY <1>1, <1>2, CallGoesOn

(* A submission draws a seed that no prompt had before.                    *)
LEMMA SeedsRiseStep ==
    ASSUME Inv, [Next]_vars
    PROVE  SeedsRise'
<1>0. Typed /\ SeedsRise /\ InOrder
  BY DEF Inv
<1>1. /\ attempts \in Nat /\ Len(sent) \in Nat
      /\ \A p \in Positions(sent) : p \in Nat /\ sent[p].seed \in Nat
  BY <1>0, Ranges
<1>2. CASE UNCHANGED sent
  <2>1. CASE \E i \in Images : PopImage(i)
    <3> PICK i \in Images : PopImage(i)
      BY <2>1
    <3>1. attempts' = attempts + 1 /\ pc' = "submit" /\ pc # "submit" /\ image' = i
      BY DEF PopImage, Goto
    <3>2. seed'[image'] = attempts'
      BY <1>0, <3>1 DEF PopImage, SeedFor, Typed, WorkerTyped
    <3> QED BY <1>0, <1>1, <1>2, <3>1, <3>2 DEF SeedsRise, Positions
  <2>2. CASE ~ \E i \in Images : PopImage(i)
    <3>1. attempts' = attempts /\ (pc' = "submit" => pc = "submit" /\ UNCHANGED <<seed, image>>)
      BY <2>2 DEF Next, vars, workerVars, serverVars, Tick, Loop, PopNothing, Submit,
         CheckDeadline, Ask, Wake, View, RequestFails, Execute, Recreate, Goto, Fail
    <3>2. \A p \in Positions(sent) : sent[p].seed < attempts + (IF pc' = "submit" THEN 0 ELSE 1)
      BY <1>0, <1>1, <3>1 DEF SeedsRise
    <3> QED BY <1>0, <1>1, <1>2, <3>1, <3>2 DEF SeedsRise, Positions
  <2> QED BY <2>1, <2>2
<1>3. CASE /\ pc = "submit" /\ pc' \in {"check", "loop"} /\ Accept
           /\ UNCHANGED <<seed, attempts>>
  <2> DEFINE p == Len(sent) + 1
  <2>1. /\ Len(sent') = p /\ p <= attempts /\ Positions(sent') = Positions(sent) \cup {p}
        /\ sent'[p].seed = attempts
        /\ \A q \in Positions(sent) : sent'[q] = sent[q]
    BY <1>0, <1>3, Accepted
  <2>2. \A q \in Positions(sent) : sent[q].seed < attempts
    BY <1>0, <1>1, <1>3 DEF SeedsRise
  <2>3. \A q, r \in Positions(sent') : q < r => sent'[q].seed < sent'[r].seed
    <3> SUFFICES ASSUME NEW q \in Positions(sent'), NEW r \in Positions(sent'), q < r
                 PROVE  sent'[q].seed < sent'[r].seed
      OBVIOUS
    <3>1. q \in Positions(sent)
      BY <1>1, <2>1 DEF Positions
    <3>2. CASE r = p
      BY <2>1, <2>2, <3>1, <3>2
    <3>3. CASE r \in Positions(sent)
      BY <1>0, <2>1, <3>1, <3>3 DEF SeedsRise
    <3> QED BY <2>1, <3>2, <3>3
  <2>4. \A q \in Positions(sent') : sent'[q].seed < attempts + 1
    BY <1>1, <2>1, <2>2
  <2> QED BY <1>1, <1>3, <2>1, <2>3, <2>4 DEF SeedsRise
<1> QED BY <1>2, <1>3, SentGrows

(* Prompts wait, and are rendered, in the order in which they were         *)
(* submitted.                                                              *)
LEMMA InOrderStep ==
    ASSUME Inv, [Next]_vars
    PROVE  InOrder'
<1>0. Typed /\ SeedsRise /\ InOrder
  BY DEF Inv
<1>r. Len(pending) \in Nat /\ Len(outputs) \in Nat /\ Len(sent) \in Nat /\ attempts \in Nat
  BY <1>0, Ranges
<1>1. CASE pc = "submit" /\ Accept
  <2> DEFINE p == Len(sent) + 1
             l == Len(pending) + 1
  <2>1. /\ Positions(sent') = Positions(sent) \cup {p}
        /\ sent'[p].seed = attempts /\ p \in Nat
        /\ \A q \in Positions(sent) : sent'[q] = sent[q]
        /\ Positions(pending') = Positions(pending) \cup {l}
        /\ pending'[l] = p
        /\ \A n \in Positions(pending) : pending'[n] = pending[n]
    BY <1>0, <1>1, Accepted
  <2>2. cached' = cached /\ outputs' = outputs
    BY <1>1 DEF Accept
  <2>3. \A q \in Positions(sent) : q < p /\ sent[q].seed < attempts
    BY <1>0, <1>r, <1>1 DEF SeedsRise, Positions
  <2>4. \A n \in Positions(pending') : pending'[n] \in Positions(sent')
    BY <1>0, <2>1 DEF InOrder
  <2>5. \A m, n \in Positions(pending') : m < n => pending'[m] < pending'[n]
    <3> SUFFICES ASSUME NEW m \in Positions(pending'), NEW n \in Positions(pending'), m < n
                 PROVE  pending'[m] < pending'[n]
      OBVIOUS
    <3>1. m \in Positions(pending)
      BY <1>r, <2>1 DEF Positions
    <3>2. CASE n = l
      BY <1>0, <2>1, <2>3, <3>1, <3>2 DEF InOrder
    <3>3. CASE n \in Positions(pending)
      BY <1>0, <2>1, <3>1, <3>3 DEF InOrder
    <3> QED BY <2>1, <3>2, <3>3
  <2>6. \A c \in cached', n \in Positions(pending') : c.seed < sent'[pending'[n]].seed
    <3> SUFFICES ASSUME NEW c \in cached, NEW n \in Positions(pending')
                 PROVE  c.seed < sent'[pending'[n]].seed
      BY <2>2
    <3>1. CASE n = l
      <4>1. \E q \in Positions(sent) : c = sent[q]
        BY <1>0 DEF InOrder
      <4> QED BY <2>1, <2>3, <3>1, <4>1
    <3>2. CASE n \in Positions(pending)
      BY <1>0, <2>1, <3>2 DEF InOrder
    <3> QED BY <2>1, <3>1, <3>2
  <2>9. \A c \in cached' : \E q \in Positions(sent') : c = sent'[q]
    BY <1>0, <2>1, <2>2 DEF InOrder
  <2>7. \A n \in Positions(outputs') : outputs'[n] \in Positions(sent') /\ n <= outputs'[n]
    BY <1>0, <2>1, <2>2 DEF InOrder
  <2>8. \A m \in Positions(outputs'), n \in Positions(pending') : outputs'[m] < pending'[n]
    <3> SUFFICES ASSUME NEW m \in Positions(outputs), NEW n \in Positions(pending')
                 PROVE  outputs[m] < pending'[n]
      BY <2>2
    <3>1. CASE n = l
      BY <1>0, <2>1, <2>3, <3>1 DEF InOrder
    <3>2. CASE n \in Positions(pending)
      BY <1>0, <2>1, <3>2 DEF InOrder
    <3> QED BY <2>1, <3>1, <3>2
  <2> QED BY <2>4, <2>5, <2>6, <2>7, <2>8, <2>9 DEF InOrder
<1>2. CASE Execute
  <2> DEFINE p == Head(pending)
  <2>1. Renders
    BY <1>0, <1>2, ExecuteRenders
  <2>2. /\ p \in Positions(sent) /\ p = pending[1] /\ 1 \in Positions(pending)
        /\ Positions(pending') \subseteq Nat
        /\ \A n \in Positions(pending') :
              pending'[n] = pending[n + 1] /\ n + 1 \in Positions(pending) /\ p < pending'[n]
    BY <1>0, <2>1, NextPrompt DEF Renders, Positions
  <2>3. sent' = sent
    BY <2>1 DEF Renders
  <2>4. \A n \in Positions(pending') : pending'[n] \in Positions(sent)
    BY <1>0, <2>2 DEF InOrder
  <2>5. \A m, n \in Positions(pending') : m < n => pending'[m] < pending'[n]
    <3> SUFFICES ASSUME NEW m \in Positions(pending'), NEW n \in Positions(pending'), m < n
                 PROVE  pending[m + 1] < pending[n + 1]
      BY <2>2
    <3>1. m + 1 < n + 1
      BY <2>2
    <3> QED BY <1>0, <2>2, <3>1 DEF InOrder
  <2>6. \A n \in Positions(pending') : sent[p].seed < sent[pending'[n]].seed
    BY <1>0, <2>2, <2>4 DEF SeedsRise
  <2>7. cached' \subseteq cached \cup {sent[p]}
    BY <2>1 DEF Renders
  <2>8. \A c \in cached', n \in Positions(pending') : c.seed < sent[pending'[n]].seed
    <3> SUFFICES ASSUME NEW c \in cached', NEW n \in Positions(pending')
                 PROVE  c.seed < sent[pending'[n]].seed
      OBVIOUS
    <3>1. CASE c \in cached
      BY <1>0, <2>2, <3>1 DEF InOrder
    <3> QED BY <2>6, <2>7, <3>1
  <2>9. \A c \in cached' : \E q \in Positions(sent) : c = sent[q]
    BY <1>0, <2>2, <2>7 DEF InOrder
  <2>10. CASE outputs' = outputs
    <3>1. \A m \in Positions(outputs), n \in Positions(pending') : outputs[m] < pending'[n]
      BY <1>0, <2>2 DEF InOrder
    <3> QED BY <1>0, <2>3, <2>4, <2>5, <2>8, <2>9, <2>10, <3>1 DEF InOrder
  <2>11. CASE outputs' = Append(outputs, p)
    <3> DEFINE l == Len(outputs) + 1
    <3>1. /\ Positions(outputs') = Positions(outputs) \cup {l} /\ outputs'[l] = p
          /\ \A n \in Positions(outputs) : outputs'[n] = outputs[n]
      <4>1. outputs \in Seq(Nat)
        BY <1>0 DEF Typed, ServerTyped
      <4> QED BY <2>11, <4>1 DEF Positions
    <3>2. l <= p
      <4>1. p \in Nat /\ p >= 1
        BY <1>r, <2>2 DEF Positions
      <4>2. CASE Len(outputs) = 0
        BY <4>1, <4>2
      <4>3. CASE Len(outputs) # 0
        <5>1. Len(outputs) \in Positions(outputs)
          BY <1>r, <4>3 DEF Positions
        <5>2. Len(outputs) <= outputs[Len(outputs)] /\ outputs[Len(outputs)] < p
          BY <1>0, <2>2, <5>1 DEF InOrder
        <5>3. outputs[Len(outputs)] \in Nat
          BY <1>0, <5>1, Ranges
        <5> QED BY <1>r, <4>1, <5>2, <5>3
      <4> QED BY <4>2, <4>3
    <3>3. \A n \in Positions(outputs') : outputs'[n] \in Positions(sent) /\ n <= outputs'[n]
      BY <1>0, <2>2, <3>1, <3>2 DEF InOrder
    <3>4. \A m \in Positions(outputs'), n \in Positions(pending') : outputs'[m] < pending'[n]
      <4> SUFFICES ASSUME NEW m \in Positions(outputs'), NEW n \in Positions(pending')
                   PROVE  outputs'[m] < pending'[n]
        OBVIOUS
      <4>1. CASE m = l
        BY <2>2, <3>1, <4>1
      <4>2. CASE m \in Positions(outputs)
        BY <1>0, <2>2, <3>1, <4>2 DEF InOrder
      <4> QED BY <3>1, <4>1, <4>2
    <3> QED BY <2>3, <2>4, <2>5, <2>8, <2>9, <3>3, <3>4 DEF InOrder
  <2> QED BY <2>1, <2>10, <2>11 DEF Renders
<1>3. CASE Recreate
  BY <1>3 DEF Recreate, InOrder, Positions
<1>4. CASE UNCHANGED serverVars
  BY <1>0, <1>4 DEF serverVars, InOrder, Positions
<1> QED BY <1>1, <1>2, <1>3, <1>4, ServerSteps

(* How the worker comes to fetch a file.                                   *)
LEMMA FileNamed ==
    ASSUME [Next]_vars, pc' = "view"
    PROVE  \/ pc = "view" /\ UNCHANGED <<filename, prompt>>
           \/ /\ pc = "ask" /\ history[prompt].status = "image"
              /\ filename' = history[prompt].file
              /\ UNCHANGED <<prompt, outputs>>
<1> QED
  BY DEF Next, vars, workerVars, serverVars, Tick, Loop, PopNothing, PopImage, Submit,
     CheckDeadline, Ask, Wake, View, RequestFails, Execute, Recreate, Goto, Fail

(* The history keeps the file of a prompt with the image it was submitted  *)
(* for.                                                                    *)
LEMMA EntriesAreOwnStep ==
    ASSUME Inv, [Next]_vars
    PROVE  EntriesAreOwn'
<1>0. Typed /\ OwnPrompt /\ SeedsRise /\ InOrder /\ EntriesAreOwn
  BY DEF Inv
<1>r. outputs \in Seq(Nat) /\ Len(outputs) \in Nat /\ history \in [Prompts -> Entries]
  BY <1>0 DEF Typed, ServerTyped
<1>1. \A p \in Prompts : history'[p].status = "image" =>
          history'[p].file \in Positions(outputs') /\ outputs'[history'[p].file] = p
  <2>1. CASE UNCHANGED <<history, outputs>>
    BY <1>0, <2>1 DEF EntriesAreOwn, Positions
  <2>2. CASE Execute
    <3> DEFINE q == Head(pending)
    <3>1. Renders /\ q \in Prompts
      BY <1>0, <2>2, ExecuteRenders, NextPrompt DEF Renders
    <3>2. CASE /\ history' = [history EXCEPT ![q] = [status |-> "image", file |-> Len(outputs) + 1]]
               /\ outputs' = Append(outputs, q)
      <4>1. /\ Positions(outputs) \subseteq Positions(outputs')
            /\ Len(outputs) + 1 \in Positions(outputs') /\ outputs'[Len(outputs) + 1] = q
            /\ \A n \in Positions(outputs) : outputs'[n] = outputs[n]
        BY <1>r, <3>2 DEF Positions
      <4>2. history'[q].file = Len(outputs) + 1 /\ \A p \in Prompts \ {q} : history'[p] = history[p]
        BY <1>r, <3>1, <3>2
      <4> QED BY <1>0, <4>1, <4>2 DEF EntriesAreOwn
    <3>3. CASE history' = [history EXCEPT ![q] = [status |-> "error"]] /\ outputs' = outputs
      <4>1. history'[q].status = "error" /\ \A p \in Prompts \ {q} : history'[p] = history[p]
        BY <1>r, <3>1, <3>3
      <4> QED BY <1>0, <3>3, <4>1 DEF EntriesAreOwn
    <3> QED BY <3>1, <3>2, <3>3 DEF Renders
  <2>3. CASE Recreate
    BY <2>3 DEF Recreate, NoEntry
  <2> QED BY <2>1, <2>2, <2>3, ServerSteps DEF Accept, serverVars
<1>2. ASSUME pc' = "view"
      PROVE  /\ filename' # 0
             /\ \/ filename' \in Positions(outputs') /\ outputs'[filename'] = prompt'
                \/ outputs' = <<>> /\ pending' = <<>>
  <2>1. CASE pc = "ask"
    <3>1. /\ history[prompt].status = "image" /\ filename' = history[prompt].file
          /\ prompt' = prompt /\ outputs' = outputs
      BY <1>2, <2>1, FileNamed
    <3>2. prompt \in Prompts
      BY <1>0, <2>1, InCallPrompt DEF InCall
    <3> QED BY <1>0, <1>r, <3>1, <3>2 DEF EntriesAreOwn, Positions
  <2>2. CASE pc = "view"
    <3>1. UNCHANGED <<filename, prompt>>
      BY <1>2, <2>2, FileNamed
    <3>2. /\ filename # 0
          /\ \/ filename \in Positions(outputs) /\ outputs[filename] = prompt
             \/ outputs = <<>> /\ pending = <<>>
      BY <1>0, <2>2 DEF EntriesAreOwn
    <3>3. CASE Execute
      <4>1. Renders
        BY <1>0, <3>3, ExecuteRenders
      <4>2. filename \in Positions(outputs) /\ outputs[filename] = prompt
        BY <3>2, <4>1 DEF Renders
      <4>3. filename \in Positions(outputs') /\ outputs'[filename] = prompt
        <5>1. CASE outputs' = outputs
          BY <4>2, <5>1 DEF Positions
        <5>2. CASE outputs' = Append(outputs, Head(pending))
          BY <1>r, <4>2, <5>2 DEF Positions
        <5> QED BY <4>1, <5>1, <5>2 DEF Renders
      <4> QED BY <3>1, <3>2, <4>3
    <3>4. CASE Recreate
      BY <3>1, <3>2, <3>4 DEF Recreate
    <3>5. CASE UNCHANGED serverVars
      BY <3>1, <3>2, <3>5 DEF serverVars, Positions
    <3> QED BY <2>2, <3>3, <3>4, <3>5, ServerSteps
  <2> QED BY <1>2, <2>1, <2>2, FileNamed
<1> QED BY <1>1, <1>2 DEF EntriesAreOwn

(* A fetch writes a file of its own image.                                 *)
LEMMA PathsAreOwnStep ==
    ASSUME Inv, [Next]_vars
    PROVE  PathsAreOwn'
<1>0. Typed /\ OwnPrompt /\ SeedsRise /\ InOrder /\ EntriesAreOwn /\ PathsAreOwn
  BY DEF Inv
<1>1. Positions(sent) \subseteq Positions(sent') /\ \A p \in Positions(sent) : sent'[p] = sent[p]
  <2>1. CASE UNCHANGED sent
    BY <2>1 DEF Positions
  <2>2. CASE pc = "submit" /\ Accept
    BY <1>0, <2>2, Accepted
  <2> QED BY <2>1, <2>2, SentGrows
<1>2. CASE UNCHANGED <<path, files>>
  BY <1>0, <1>1, <1>2 DEF PathsAreOwn
<1>3. CASE View /\ filename <= Len(outputs)
  <2> DEFINE name == <<prompt, filename>>
             new == [name |-> name, of |-> outputs[filename]]
  <2>1. /\ files' = {f \in files : f.name # name} \cup {new}
        /\ path' = [path EXCEPT ![image] = name]
        /\ pc = "view" /\ UNCHANGED sent
    BY <1>3 DEF View, OutPath, serverVars
  <2>2. prompt \in Positions(sent) /\ sent[prompt].image = image
    BY <1>0, <2>1, InCallPrompt DEF InCall
  <2>3. outputs[filename] = prompt
    <3>1. filename # 0 /\ filename \in Nat /\ outputs \in Seq(Nat)
      BY <1>0, <2>1 DEF EntriesAreOwn, Typed, WorkerTyped, ServerTyped
    <3>2. outputs # <<>>
      BY <1>3, <3>1
    <3> QED BY <1>0, <2>1, <3>2 DEF EntriesAreOwn
  <2>4. image \in Images /\ path \in [Images -> Paths]
    BY <1>0 DEF Typed, WorkerTyped
  <2> SUFFICES ASSUME NEW i \in Images, path'[i] # NoPath
               PROVE  /\ path'[i][1] \in Positions(sent) /\ sent[path'[i][1]].image = i
                      /\ \E f \in files' : /\ f.name = path'[i]
                                           /\ f.of \in Positions(sent) /\ sent[f.of].image = i
    BY <2>1 DEF PathsAreOwn
  <2>5. CASE i = image
    <3>1. path'[i] = name /\ path'[i][1] = prompt
      BY <2>1, <2>4, <2>5
    <3>2. new \in files' /\ new.name = name /\ new.of = prompt
      BY <2>1, <2>3
    <3> QED BY <2>2, <2>5, <3>1, <3>2
  <2>6. CASE i # image
    <3>1. path'[i] = path[i]
      BY <2>1, <2>4, <2>6
    <3>2. /\ path[i][1] \in Positions(sent) /\ sent[path[i][1]].image = i
          /\ \E f \in files : /\ f.name = path[i]
                              /\ f.of \in Positions(sent) /\ sent[f.of].image = i
      BY <1>0, <3>1 DEF PathsAreOwn
    <3>3. path[i] # name
      <4>1. name[1] = prompt
        OBVIOUS
      <4> QED BY <2>2, <2>6, <3>2, <4>1
    <3>4. PICK f \in files : f.name = path[i] /\ f.of \in Positions(sent) /\ sent[f.of].image = i
      BY <3>2
    <3>5. f \in files'
      BY <2>1, <3>3, <3>4
    <3> QED BY <3>1, <3>2, <3>4, <3>5
  <2> QED BY <2>5, <2>6
<1>4. UNCHANGED <<path, files>> \/ (View /\ filename <= Len(outputs))
  BY DEF Next, vars, workerVars, serverVars, Tick, Loop, PopNothing, PopImage, Submit,
     CheckDeadline, Ask, Wake, View, RequestFails, Execute, Recreate
<1> QED BY <1>2, <1>3, <1>4

(* No step leaves a deadline, or the last heartbeat, further behind than   *)
(* the parameters allow.                                                   *)
LEMMA ClocksStep ==
    ASSUME Inv, [Next]_vars
    PROVE  Clocks'
<1>0. Typed /\ Clocks
  BY DEF Inv
<1>r. /\ clock \in Nat /\ since \in Nat /\ beat \in Nat /\ deadline \in Nat
      /\ pc \in {"loop", "pop", "submit", "check", "ask", "sleep", "view"}
  BY <1>0 DEF Typed, WorkerTyped
<1> USE <1>0, <1>r, Constants
    DEF Clocks, InCall, CallStart, MaxSilence, Limit, Goto, Fail, NextPoll
<1>1. CASE Tick
  BY <1>1 DEF Tick, workerVars
<1>2. CASE Loop
  BY <1>2 DEF Loop, TouchHeartbeat
<1>3. CASE PopNothing
  BY <1>3 DEF PopNothing
<1>4. ASSUME NEW i \in Images, PopImage(i) PROVE Clocks'
  BY <1>4 DEF PopImage
<1>5. CASE Submit
  BY <1>5 DEF Submit
<1>6. CASE CheckDeadline
  BY <1>6 DEF CheckDeadline
<1>7. CASE Ask
  <2>1. /\ pc = "ask" /\ pc' \in {"sleep", "view", "loop"} /\ since' = clock
        /\ UNCHANGED <<clock, beat, deadline>>
    BY <1>7 DEF Ask, DeadlineAfterPoll
  <2> QED BY <2>1
<1>8. CASE Wake
  BY <1>8 DEF Wake
<1>9. CASE View
  <2>1. pc = "view" /\ pc' = "loop" /\ since' = clock /\ UNCHANGED <<clock, beat, deadline>>
    BY <1>9 DEF View
  <2> QED BY <2>1
<1>10. CASE RequestFails
  BY <1>10 DEF RequestFails
<1>11. CASE Execute \/ Recreate \/ UNCHANGED vars
  BY <1>11 DEF Execute, Recreate, vars, workerVars
<1> QED BY <1>1, <1>2, <1>3, <1>4, <1>5, <1>6, <1>7, <1>8, <1>9, <1>10, <1>11 DEF Next

(* An entry of an accepted prompt appears now, or is as it was, or is lost.*)
LEMMA EntryAppears ==
    ASSUME Typed, SeedsRise, InOrder, [Next]_vars, prompt' = prompt, prompt \in Prompts
    PROVE  \/ Appeared' = Appeared /\ finished'[prompt] = finished[prompt]
           \/ finished'[prompt] = clock /\ Execute
           \/ ~ Appeared' /\ Recreate
<1>1. CASE Execute
  <2>1. Renders /\ Head(pending) \in Prompts
    BY <1>1, ExecuteRenders, NextPrompt DEF Renders
  <2>2. finished \in [Prompts -> Nat] /\ history \in [Prompts -> Entries]
    BY DEF Typed, ServerTyped
  <2>3. CASE Head(pending) = prompt
    BY <1>1, <2>1, <2>2, <2>3 DEF Renders
  <2>4. CASE Head(pending) # prompt
    <3>1. finished'[prompt] = finished[prompt]
      BY <2>1, <2>2, <2>4 DEF Renders
    <3>2. history'[prompt] = history[prompt]
      BY <2>1, <2>2, <2>4 DEF Renders
    <3> QED BY <3>1, <3>2 DEF Appeared
  <2> QED BY <2>3, <2>4
<1>2. CASE Recreate
  BY <1>2 DEF Recreate, Appeared
<1>3. CASE UNCHANGED <<history, finished>>
  BY <1>3 DEF Appeared
<1> QED BY <1>1, <1>2, <1>3, ServerSteps DEF Accept, serverVars

(* How the worker's prompt goes on: it is checked again, asked for again or*)
(* given up.                                                               *)
LEMMA PollsAreFreshStep ==
    ASSUME Inv, [Next]_vars
    PROVE  PollsAreFresh'
<1>0. Typed /\ OwnPrompt /\ SeedsRise /\ InOrder /\ Clocks /\ PollsAreFresh
  BY DEF Inv
<1>r. /\ clock \in Nat /\ since \in Nat /\ deadline \in Nat
      /\ pc \in {"loop", "pop", "submit", "check", "ask", "sleep", "view"}
      /\ finished \in [Prompts -> Nat] /\ history \in [Prompts -> Entries]
      /\ since <= clock
  BY <1>0 DEF Typed, WorkerTyped, ServerTyped, Clocks
<1>p. InCall => prompt \in Prompts
  BY <1>0, InCallPrompt
<1>f. prompt \in Prompts => finished[prompt] \in Nat
  BY <1>r
<1> USE Constants
<1>1. CASE Tick
  <2>1. pc \notin {"check", "loop"}
    BY <1>0, <1>1, <1>r DEF Tick, Limit, Clocks
  <2>2. /\ clock' = clock + 1 /\ pc' = pc /\ since' = since /\ deadline' = deadline
        /\ prompt' = prompt /\ verdict' = verdict /\ Appeared' = Appeared
        /\ finished' = finished
    BY <1>1 DEF Tick, workerVars, serverVars, Appeared
  <2> QED BY <1>0, <1>r, <2>1, <2>2 DEF PollsAreFresh
<1>2. CASE Loop \/ PopNothing
  <2>1. /\ pc' \in {"loop", "pop"} /\ pc \in {"loop", "pop"}
        /\ UNCHANGED <<clock, deadline, prompt, verdict, finished, history>>
    BY <1>2 DEF Loop, PopNothing, Goto, serverVars
  <2> QED BY <1>0, <2>1 DEF PollsAreFresh, Appeared
<1>3. CASE \E i \in Images : PopImage(i)
  BY <1>3 DEF PopImage, Goto, PollsAreFresh
<1>4. CASE Submit
  BY <1>4, <1>r DEF Submit, Goto, PollsAreFresh
<1>5. CASE CheckDeadline
  <2>1. CASE clock < deadline
    BY <1>5, <1>r, <2>1 DEF CheckDeadline, Goto, Fail, PollsAreFresh
  <2>2. CASE clock >= deadline
    <3>1. pc = "check" /\ pc' = "loop"
          /\ UNCHANGED <<clock, deadline, prompt, finished, history>>
      BY <1>5, <1>r, <2>2 DEF CheckDeadline, Goto, Fail, serverVars
    <3>2. prompt \in Prompts
      BY <1>p, <3>1 DEF InCall
    <3>3. Appeared => finished[prompt] >= clock - PollInterval - MaxDelay
      BY <1>0, <1>r, <2>2, <3>1 DEF PollsAreFresh
    <3>4. Appeared => finished[prompt] >= deadline - PollInterval - MaxDelay
      BY <1>f, <1>r, <2>2, <3>2, <3>3
    <3> QED BY <2>2, <3>1, <3>2, <3>4 DEF PollsAreFresh, Appeared
  <2> QED BY <1>r, <2>1, <2>2
<1>6. CASE Ask
  <2>1. prompt \in Prompts /\ pc = "ask" /\ clock <= since + MaxDelay
    BY <1>0, <1>6, <1>p DEF Ask, InCall, Clocks, Limit
  <2>2. UNCHANGED <<clock, prompt, finished, history>> /\ since' = clock
    BY <1>6 DEF Ask, Goto, Fail, serverVars
  <2>3. CASE pc' = "sleep"
    <3>1. history[prompt].status = "none" \/ finished[prompt] >= since
      BY <1>6, <2>3 DEF Ask, Goto, Fail
    <3>2. history[prompt].status = "none" => ~ Appeared
      BY <1>r, <2>1 DEF Entries, NoEntry, Appeared
    <3>3. Appeared => finished[prompt] >= clock - MaxDelay
      BY <1>f, <1>r, <2>1, <3>1, <3>2
    <3> QED BY <2>2, <2>3, <3>3 DEF PollsAreFresh, Appeared
  <2>4. CASE pc' # "sleep"
    <3>1. pc' = "view" \/ (pc' = "loop" /\ verdict' # "timeout")
      BY <1>6, <2>4 DEF Ask, Goto, Fail
    <3> QED BY <3>1 DEF PollsAreFresh
  <2> QED BY <2>3, <2>4
<1>7. CASE Wake
  <2>1. /\ pc = "sleep" /\ pc' = "check" /\ clock = since + PollInterval
        /\ UNCHANGED <<clock, prompt, finished, history>>
    BY <1>7, <1>r DEF Wake, Goto, NextPoll, serverVars
  <2>2. Appeared => finished[prompt] >= since - MaxDelay
    BY <1>0, <2>1 DEF PollsAreFresh
  <2>3. Appeared => finished[prompt] >= clock - PollInterval - MaxDelay
    <3>1. prompt \in Prompts
      BY <1>p, <2>1 DEF InCall
    <3> QED BY <1>f, <1>r, <2>1, <2>2, <3>1
  <2> QED BY <2>1, <2>3 DEF PollsAreFresh, Appeared
<1>8. CASE View \/ RequestFails
  <2>1. pc' = "loop" /\ verdict' # "timeout"
    BY <1>8 DEF View, RequestFails, Goto, Fail
  <2> QED BY <2>1 DEF PollsAreFresh
<1>9. CASE Execute \/ Recreate \/ UNCHANGED vars
  <2>1. UNCHANGED <<clock, pc, since, deadline, prompt, verdict>>
    BY <1>9 DEF Execute, Recreate, vars, workerVars
  <2>2. CASE prompt \in Prompts
    <3>1. \/ Appeared' = Appeared /\ finished'[prompt] = finished[prompt]
          \/ finished'[prompt] = clock
          \/ ~ Appeared'
      BY <1>0, <2>1, <2>2, EntryAppears
    <3> QED BY <1>0, <1>f, <1>r, <2>1, <2>2, <3>1 DEF PollsAreFresh
  <2>3. CASE prompt \notin Prompts
    BY <1>0, <1>p, <2>1, <2>3 DEF PollsAreFresh, InCall
  <2> QED BY <2>2, <2>3
<1> QED BY <1>1, <1>2, <1>3, <1>4, <1>5, <1>6, <1>7, <1>8, <1>9 DEF Next

-----------------------------------------------------------------------------
(* The theorems.                                                           *)

(* What the worker, the queue of ComfyUI and the clock always agree on.    *)
THEOREM InvHolds == Spec => []Inv
<1>1. Inv /\ [Next]_vars => Inv'
  BY WorkerTypedStep, ServerTypedStep, OwnPromptStep, SeedsRiseStep, InOrderStep,
     EntriesAreOwnStep, PathsAreOwnStep, ClocksStep, PollsAreFreshStep DEF Inv, Typed
<1> QED BY InitInv, <1>1, PTL DEF Spec

(* Whatever became of the earlier attempts, no call is served from         *)
(* ComfyUI's cache (a new seed for every attempt, processor.py).           *)
THEOREM RetriesRender == Spec => []RetryRenders
<1>1. Inv => RetryRenders
  BY DEF Inv, Typed, WorkerTyped, RetryRenders
<1> QED BY InvHolds, <1>1, PTL

(* The file an image row names is a render of that image.                  *)
THEOREM FilesAreOfTheirImage == Spec => []FilesAreOwn
<1>1. Inv => FilesAreOwn
  BY DEF Inv, PathsAreOwn, FilesAreOwn
<1> QED BY InvHolds, <1>1, PTL

(* A render that timed out had not ended a poll and a request earlier.     *)
THEOREM TimeoutsAreDue == Spec => []TimeoutIsDue
<1>1. Inv => TimeoutIsDue
  BY DEF Inv, PollsAreFresh, TimeoutIsDue, Appeared
<1> QED BY InvHolds, <1>1, PTL

(* The heartbeat is never older than a pop, the deadline and three         *)
(* requests.                                                               *)
THEOREM SilenceIsBounded == Spec => []SilenceBounded
<1>1. Inv => SilenceBounded
  <2> SUFFICES ASSUME Inv PROVE clock - beat <= MaxSilence
    BY DEF SilenceBounded
  <2>1. /\ clock \in Nat /\ since \in Nat /\ beat \in Nat /\ deadline \in Nat
        /\ pc \in {"loop", "pop", "submit", "check", "ask", "sleep", "view"}
        /\ Clocks
    BY DEF Inv, Typed, WorkerTyped
  <2> QED BY <2>1, Constants DEF Clocks, InCall, CallStart, MaxSilence, Limit, NextPoll
<1> QED BY InvHolds, <1>1, PTL
=============================================================================
