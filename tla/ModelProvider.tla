--------------------------- MODULE ModelProvider ---------------------------
(***************************************************************************)
(* The providers that run a model: llama.cpp as a process per generation   *)
(* ("cli"), the same for batches of embeddings ("embedder"), and a service *)
(* over HTTP ("http").  Calls may overlap with one another and with Close, *)
(* and the files a process was bound to may be replaced or rewritten.      *)
(***************************************************************************)
EXTENDS Integers, Sequences, FiniteSets

CONSTANTS
  Calls,        \* calls of Generate or Embed, each made once
  Batch,        \* texts of one Embed
  Needs,        \* what a request may need: records of weights, context, kv, overhead
  Top,          \* the largest integer
  MaxRSS,       \* the budget; 0 is none
  Dimensions,   \* dimensions a vector may have
  MaxAlterations \* changes of the bound files

NoCall == "nobody"

ProviderAssumption ==
  /\ NoCall \notin Calls /\ Batch \in Nat \ {0}
  /\ Top \in Nat \ {0} /\ MaxRSS \in 0..Top /\ MaxAlterations \in Nat /\ Dimensions \subseteq Nat \ {0}
  /\ \A n \in Needs : {n.weights, n.context, n.kv, n.overhead} \subseteq 0..Top

Artifacts == {"executable", "model"}

VARIABLES
  provider,         \* "cli", "embedder" or "http", from the beginning
  named, written,   \* of each artifact: its path still names the bound file, its content is the bound one
  altered,          \* changes made so far
  call,             \* of each call: where it is
  need,             \* what it needs
  expired,          \* its context has ended
  fate,             \* its error, "ok", or "none" while it runs
  made,             \* vectors of its batch
  tainted,          \* auxiliary: a process of it read content that was not bound
  inputs,           \* calls whose private input exists
  turn,             \* the mutex of "cli", the gate of "embedder", provider.cancel of "http"
  readers,          \* calls that hold the embedder's lifecycle lock
  closing,          \* "open", "waiting", "closed": Close
  dims              \* the bound dimension; 0 is none

providerVars == <<provider, named, written, altered, call, need, expired, fate, made, tainted, inputs, turn, readers, closing, dims>>

Places == {"new", "gate", "input", "before", "bound", "run", "vector", "after", "again", "read", "leaving", "returned"}

ProviderTypeOK ==
  /\ provider \in {"cli", "embedder", "http"}
  /\ named \in [Artifacts -> BOOLEAN] /\ written \in [Artifacts -> BOOLEAN] /\ altered \in 0..MaxAlterations
  /\ call \in [Calls -> Places] /\ fate \in [Calls -> {"none", "ok", "error", "busy"}]
  /\ need \in [Calls -> Needs] /\ expired \in [Calls -> BOOLEAN] /\ tainted \in [Calls -> BOOLEAN]
  /\ inputs \subseteq Calls /\ readers \subseteq Calls /\ turn \in Calls \cup {NoCall}
  /\ closing \in {"open", "waiting", "closed"} /\ dims \in Dimensions \cup {0}
  /\ made \in [Calls -> Seq(Dimensions)] /\ \A c \in Calls : Len(made[c]) <= Batch

ProviderInit ==
  /\ provider \in {"cli", "embedder", "http"}
  /\ named = [a \in Artifacts |-> TRUE] /\ written = [a \in Artifacts |-> TRUE] /\ altered = 0
  /\ call = [c \in Calls |-> "new"] /\ need \in [Calls -> Needs]
  /\ expired = [c \in Calls |-> FALSE] /\ fate = [c \in Calls |-> "none"]
  /\ made = [c \in Calls |-> << >>] /\ tainted = [c \in Calls |-> FALSE]
  /\ inputs = {} /\ turn = NoCall /\ readers = {} /\ closing = "open" /\ dims = 0

-----------------------------------------------------------------------------
(* EstimateMemory, in integers that end at Top.                            *)

SaturatingMultiply(x, y) == IF x # 0 /\ y > Top \div x THEN Top ELSE x * y

SaturatingAdd(total, x) == IF x > Top - total THEN Top ELSE total + x

Peak(n) == SaturatingAdd(SaturatingAdd(n.weights, SaturatingMultiply(n.context, n.kv)), n.overhead)

Allowed(n) == MaxRSS = 0 \/ Peak(n) <= MaxRSS

-----------------------------------------------------------------------------
(* The files and the contexts.                                             *)

\* verify: the path names the bound file, and the file has the bound content.
Verified(a) == named[a] /\ written[a]

CallAt(c, place) == call' = [call EXCEPT ![c] = place]
Leave(c, why) == CallAt(c, "leaving") /\ fate' = [fate EXCEPT ![c] = why]

Alter(a) ==
  /\ altered < MaxAlterations /\ altered' = altered + 1
  /\ \/ named' = [named EXCEPT ![a] = ~@] /\ UNCHANGED written
     \/ written' = [written EXCEPT ![a] = FALSE] /\ UNCHANGED named
  /\ UNCHANGED <<provider, call, need, expired, fate, made, tainted, inputs, turn, readers, closing, dims>>

\* The caller's context, the deadline of the request or the provider's own.
Expire(c) ==
  /\ call[c] \notin {"new", "returned"} /\ ~expired[c] /\ expired' = [expired EXCEPT ![c] = TRUE]
  /\ UNCHANGED <<provider, named, written, altered, call, need, fate, made, tainted, inputs, turn, readers, closing, dims>>

-----------------------------------------------------------------------------
(* Entering.                                                               *)

RefuseCall(c, why) ==
  CallAt(c, "returned") /\ fate' = [fate EXCEPT ![c] = why] /\ UNCHANGED <<turn, readers>>

\* A process per call: the mutex first, then a closed provider and the budget refuse.
EnterCli(c) ==
  /\ provider = "cli" /\ call[c] = "new" /\ turn = NoCall
  /\ IF closing = "closed" \/ ~Allowed(need[c]) THEN RefuseCall(c, "error")
     ELSE CallAt(c, "input") /\ turn' = c /\ UNCHANGED <<fate, readers>>
  /\ UNCHANGED <<provider, named, written, altered, need, expired, made, tainted, inputs, closing, dims>>

\* A Close that waits goes before new readers.
EnterEmbedder(c) ==
  /\ provider = "embedder" /\ call[c] = "new" /\ closing # "waiting"
  /\ IF closing = "closed" THEN RefuseCall(c, "error")
     ELSE CallAt(c, "gate") /\ readers' = readers \cup {c} /\ UNCHANGED <<fate, turn>>
  /\ UNCHANGED <<provider, named, written, altered, need, expired, made, tainted, inputs, closing, dims>>

\* A second request is refused, not queued.
Free == closing # "closed" /\ turn = NoCall

EnterHttp(c) ==
  /\ provider = "http" /\ call[c] = "new"
  /\ IF ~Free THEN RefuseCall(c, "busy") ELSE CallAt(c, "run") /\ turn' = c /\ UNCHANGED <<fate, readers>>
  /\ UNCHANGED <<provider, named, written, altered, need, expired, made, tainted, inputs, closing, dims>>

\* The embedder's gate, or the caller's context.
Gate(c) ==
  /\ call[c] = "gate"
  /\ \/ turn = NoCall /\ turn' = c /\ CallAt(c, "before") /\ UNCHANGED fate
     \/ expired[c] /\ Leave(c, "error") /\ UNCHANGED turn
  /\ UNCHANGED <<provider, named, written, altered, need, expired, made, tainted, inputs, readers, closing, dims>>

\* The prompt or the text goes into a private file, or cannot; the embedder has its
\* files checked before the first text, the process provider after the prompt.
WriteInput(c) ==
  /\ call[c] = "input"
  /\ \/ inputs' = inputs \cup {c} /\ CallAt(c, IF provider = "cli" THEN "before" ELSE "run") /\ UNCHANGED fate
     \/ Leave(c, "error") /\ UNCHANGED inputs
  /\ UNCHANGED <<provider, named, written, altered, need, expired, made, tainted, turn, readers, closing, dims>>

\* The executable, then the model; a check may yield or fail as well.
VerifyBefore(c) ==
  /\ call[c] \in {"before", "bound"}
  /\ \/ call[c] = "before" /\ Verified("executable") /\ CallAt(c, "bound") /\ UNCHANGED fate
     \/ call[c] = "bound" /\ Verified("model") /\ CallAt(c, IF provider = "cli" THEN "run" ELSE "input") /\ UNCHANGED fate
     \/ Leave(c, "error")
  /\ UNCHANGED <<provider, named, written, altered, need, expired, made, tainted, inputs, turn, readers, closing, dims>>

-----------------------------------------------------------------------------
(* The process, or the request.                                            *)

\* The process reads the bound files through its parent's descriptors.
LoadFiles(c) ==
  /\ call[c] = "run" /\ provider # "http" /\ ~tainted[c] /\ \E a \in Artifacts : ~written[a]
  /\ tainted' = [tainted EXCEPT ![c] = TRUE]
  /\ UNCHANGED <<provider, named, written, altered, call, need, expired, fate, made, inputs, turn, readers, closing, dims>>

\* A process that ends well has a response, or a vector of some dimension.
Generated(c) ==
  /\ provider = "cli" /\ call[c] = "run" /\ ~expired[c] /\ CallAt(c, "after")
  /\ UNCHANGED <<provider, named, written, altered, need, expired, fate, made, tainted, inputs, turn, readers, closing, dims>>

Embedded(c, d) ==
  /\ provider = "embedder" /\ call[c] = "run" /\ ~expired[c]
  /\ made' = [made EXCEPT ![c] = Append(@, d)] /\ CallAt(c, "vector")
  /\ UNCHANGED <<provider, named, written, altered, need, expired, fate, tainted, inputs, turn, readers, closing, dims>>

\* It fails, is stopped at a limit or a deadline, or says what cannot be parsed; a
\* request may fail as well.
Fails(c) ==
  /\ call[c] = "run" /\ Leave(c, "error")
  /\ UNCHANGED <<provider, named, written, altered, need, expired, made, tainted, inputs, turn, readers, closing, dims>>

\* A text's private input is removed with it; when it cannot be, the text has failed.
Vector(c) ==
  /\ call[c] = "vector"
  /\ LET d == made[c][Len(made[c])] IN
     \/ /\ inputs' = inputs \ {c} /\ dims \in {0, d} /\ dims' = d
        /\ CallAt(c, IF Len(made[c]) = Batch THEN "after" ELSE "input") /\ UNCHANGED fate
     \/ inputs' = inputs \ {c} /\ dims \notin {0, d} /\ Leave(c, "error") /\ UNCHANGED dims
     \/ Leave(c, "error") /\ UNCHANGED <<inputs, dims>>
  /\ UNCHANGED <<provider, named, written, altered, need, expired, made, tainted, turn, readers, closing>>

\* The same two checks after them.
VerifyAfter(c) ==
  /\ call[c] \in {"after", "again"}
  /\ \/ call[c] = "after" /\ Verified("executable") /\ CallAt(c, "again") /\ UNCHANGED fate
     \/ call[c] = "again" /\ Verified("model") /\ Leave(c, "ok")
     \/ Leave(c, "error")
  /\ UNCHANGED <<provider, named, written, altered, need, expired, made, tainted, inputs, turn, readers, closing, dims>>

\* The body is read while the context lives, and decoded whether or not it does.
ReadBody(c) ==
  /\ provider = "http" /\ call[c] = "run" /\ ~expired[c] /\ CallAt(c, "read")
  /\ UNCHANGED <<provider, named, written, altered, need, expired, fate, made, tainted, inputs, turn, readers, closing, dims>>

Decode(c) ==
  /\ call[c] = "read" /\ \E why \in {"ok", "error"} : Leave(c, why)
  /\ UNCHANGED <<provider, named, written, altered, need, expired, made, tainted, inputs, turn, readers, closing, dims>>

\* What the call deferred: its input, then its locks.  The prompt of "cli" may stay.
ReturnCall(c) ==
  /\ call[c] = "leaving" /\ CallAt(c, "returned")
  /\ turn' = IF turn = c THEN NoCall ELSE turn
  /\ readers' = readers \ {c}
  /\ inputs' \in {inputs \ {c}, inputs}
  /\ UNCHANGED <<provider, named, written, altered, need, expired, fate, made, tainted, closing, dims>>

-----------------------------------------------------------------------------
(* Close.                                                                  *)

\* Waits for the mutex and releases the files.
CloseCli ==
  /\ provider = "cli" /\ closing = "open" /\ turn = NoCall /\ closing' = "closed"
  /\ UNCHANGED <<provider, named, written, altered, call, need, expired, fate, made, tainted, inputs, turn, readers, dims>>

\* defect: the lifecycle lock is not awaited
CloseAtOnce ==
  /\ provider = "embedder" /\ closing = "open" /\ closing' = "closed"
  /\ UNCHANGED <<provider, named, written, altered, call, need, expired, fate, made, tainted, inputs, turn, readers, dims>>

\* Waits for those that are inside, and keeps others out meanwhile.
CloseEmbedder ==
  /\ provider = "embedder"
  /\ \/ closing = "open" /\ closing' = "waiting"
     \/ closing = "waiting" /\ readers = {} /\ closing' = "closed"
  /\ UNCHANGED <<provider, named, written, altered, call, need, expired, fate, made, tainted, inputs, turn, readers, dims>>

\* Cancels what is under way and does not wait for it.
CloseHttp ==
  /\ provider = "http" /\ closing = "open" /\ closing' = "closed"
  /\ expired' = [c \in Calls |-> expired[c] \/ turn = c]
  /\ UNCHANGED <<provider, named, written, altered, call, need, fate, made, tainted, inputs, turn, readers, dims>>

ProviderNext ==
  \/ \E c \in Calls :
       \/ EnterCli(c) \/ EnterEmbedder(c) \/ EnterHttp(c) \/ Gate(c) \/ WriteInput(c) \/ VerifyBefore(c)
       \/ LoadFiles(c) \/ Fails(c) \/ Generated(c) \/ (\E d \in Dimensions : Embedded(c, d)) \/ Vector(c) \/ VerifyAfter(c)
       \/ ReadBody(c) \/ Decode(c) \/ ReturnCall(c) \/ Expire(c)
  \/ \E a \in Artifacts : Alter(a)
  \/ CloseCli \/ CloseEmbedder \/ CloseHttp

ProviderSpec == ProviderInit /\ [][ProviderNext]_providerVars

-----------------------------------------------------------------------------
Under(c) == call[c] \in {"run", "vector", "after", "again", "read"}

\* One model at a time, whoever asks, never beyond the budget, and for the process
\* providers never once Close has released their files.  A budget of the largest
\* integer is none: a sum that ends there is not beyond it.
OneModel ==
  /\ Cardinality({c \in Calls : Under(c)}) <= 1
  /\ provider # "http" /\ closing = "closed" => \A c \in Calls : ~Under(c)
  /\ provider = "http" /\ closing = "closed" => \A c \in Calls : Under(c) => expired[c]
  /\ provider = "cli" /\ MaxRSS \notin {0, Top} =>
       \A c \in Calls : Under(c) => need[c].weights + need[c].context * need[c].kv + need[c].overhead <= MaxRSS

\* What a process made of a file rewritten while it ran is never returned (no one
\* puts the bound content back in this model).
AnswersBound == provider # "http" => \A c \in Calls : fate[c] = "ok" => ~tainted[c]

\* All vectors a caller was given have the one bound dimension, a batch is whole, and
\* none of its texts is left behind.
VectorsAgree ==
  provider = "embedder" =>
    \A c \in Calls : fate[c] = "ok" =>
      /\ Len(made[c]) = Batch /\ \A i \in 1..Batch : made[c][i] = dims
      /\ c \notin inputs

ProviderSound == ProviderTypeOK /\ OneModel /\ AnswersBound /\ VectorsAgree
=============================================================================
