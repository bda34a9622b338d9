----------------------------- MODULE ClientMode -----------------------------
(***************************************************************************)
(* The client driver of src/src/client_mode.cpp: the interactive loop of  *)
(* every client process (interactive_mode), and the command the leader    *)
(* (m_id = 0, t_id = 0) runs for each input line (batch_execute):         *)
(* translate the placeholders of a query template into the object lists  *)
(* of their types, through the process-wide cache type_to_idvec           *)
(* (translate_req_template), then send execute_count instances of the    *)
(* template, each with random objects at the placeholder positions        *)
(* (instantiate_request), waiting for each reply.                        *)
(*                                                                         *)
(* The server side is not in the repository; it is a responder that      *)
(* answers a type request with the objects of the type.  Client and       *)
(* server talk synchronously (Send, then Recv), so one message is in      *)
(* flight at a time.  Strings (type names, file names) are model values,  *)
(* a vector<int> of objects is the set of its elements: the code only     *)
(* ever picks a random element of it.                                     *)
(***************************************************************************)
EXTENDS Integers, Sequences, FiniteSets, SequencesExt

CONSTANTS
  Ranks,        \* the client processes (one client thread each)
  Leader,       \* the process with m_id = 0 and t_id = 0
  Types,        \* placeholder type names
  KnownTypes,   \* the types parser.find_type_of resolves
  Ids,          \* object ids
  Objects,      \* Objects[t]: the objects of type t on the server
  Positions,    \* positions of a command chain
  Fixed,        \* a chain entry that is not a placeholder
  Templates,    \* what parse_template can make of an input file
  InputCounts,  \* the count read from the input line (any int)
  Queries,      \* what parse can make of an input file: [ok, chain]
  NDEBUG,       \* whether the build defines NDEBUG
  EXECUTES,     \* the functions line 76/77 of interactive_mode can call
  MaxCommands,  \* bound on the number of input lines
  NoVec,        \* type_to_idvec has no entry for the type
  NoMsg         \* no request / reply in flight

ASSUME
  /\ Leader \in Ranks /\ KnownTypes \subseteq Types
  /\ Objects \in [Types -> SUBSET Ids]
  /\ Templates \subseteq [ok : BOOLEAN, str : Seq(Types), pos : Seq(Positions),
                          chain : [Positions -> Ids \cup {Fixed}]]
  /\ Queries \subseteq [ok : BOOLEAN, chain : [Positions -> Ids \cup {Fixed}]]
  /\ EXECUTES \subseteq {"batch_execute", "interactive_execute"}
  /\ InputCounts \subseteq Int /\ NDEBUG \in BOOLEAN /\ MaxCommands \in Nat

VARIABLES
  pc,       \* pc[r]: where process r is
  arrived,  \* the processes waiting in the current MPI_Barrier
  cmds,     \* input lines read so far
  tpl,      \* req_template of the running command
  count,    \* execute_count of the running command
  k,        \* the loop index of batch_execute
  i,        \* the loop index of translate_req_template
  vecs,     \* req_template.place_holder_vecptr
  cache,    \* type_to_idvec
  chain,    \* request.cmd_chains
  req,      \* the request in flight to the server
  rep,      \* the reply in flight to the client
  crash,    \* "none", or how the process died
  asked,    \* history: the type requests sent, in order
  sent,     \* history: [tpl, chain] of every query sent
  execute   \* the function this build calls (fixed when it is compiled)

vars == <<pc, arrived, cmds, tpl, count, k, i, vecs, cache, chain, req, rep,
          crash, asked, sent, execute>>
cmd == <<tpl, count, k, i, vecs, chain>>

Alive == crash = "none"
At(l) == Alive /\ pc[Leader] = l
Goto(l) == pc' = [pc EXCEPT ![Leader] = l]
Type == tpl.str[i]

-----------------------------------------------------------------------------
(* interactive_mode (lines 60-80): every process loops on MPI_Barrier; the *)
(* leader reads a line and runs batch_execute on it after each barrier.   *)

Arrive(r) ==
  /\ Alive /\ pc[r] = "loop"
  /\ pc' = [pc EXCEPT ![r] = "barrier"]
  /\ arrived' = arrived \cup {r}
  /\ UNCHANGED <<execute, cmds, cmd, cache, req, rep, crash, asked, sent>>

Release ==
  /\ Alive /\ arrived = Ranks
  /\ arrived' = {}
  /\ pc' = [r \in Ranks |-> IF r = Leader THEN "input" ELSE "loop"]
  /\ UNCHANGED <<execute, cmds, cmd, cache, req, rep, crash, asked, sent>>

\* Mutant of ReadInput: the count is not clamped to at least 1.
ReadInputNoClamp ==
  /\ At("input") /\ cmds < MaxCommands /\ execute = "batch_execute"
  /\ \E t \in Templates, n \in InputCounts :
       /\ tpl' = t /\ count' = n /\ chain' = t.chain
       /\ Goto(IF t.ok THEN "translate" ELSE "loop")
  /\ i' = 1 /\ vecs' = <<>> /\ k' = 0 /\ cmds' = cmds + 1
  /\ UNCHANGED <<execute, arrived, cache, req, rep, crash, asked, sent>>

\* Read "file [count]", clamp the count to 1, parse the template, copy its
\* command chain into the request; a parse error returns to the loop.
ReadInput ==
  /\ At("input") /\ cmds < MaxCommands /\ execute = "batch_execute"
  /\ \E t \in Templates, n \in InputCounts :
       /\ tpl' = t /\ count' = (IF n < 1 THEN 1 ELSE n) /\ chain' = t.chain
       /\ Goto(IF t.ok THEN "translate" ELSE "loop")
  /\ i' = 1 /\ vecs' = <<>> /\ k' = 0 /\ cmds' = cmds + 1
  /\ UNCHANGED <<execute, arrived, cache, req, rep, crash, asked, sent>>

\* The same line handed to interactive_execute, which parses a plain query.
ReadQuery ==
  /\ At("input") /\ cmds < MaxCommands /\ execute = "interactive_execute"
  /\ \E q \in Queries, n \in InputCounts :
       /\ count' = (IF n < 1 THEN 1 ELSE n) /\ chain' = q.chain
       /\ Goto(IF q.ok THEN "isend" ELSE "loop")
  /\ k' = 0 /\ cmds' = cmds + 1
  /\ UNCHANGED <<execute, arrived, tpl, i, vecs, cache, req, rep, crash, asked, sent>>

-----------------------------------------------------------------------------
(* interactive_execute (lines 34-58): the same request execute_count times. *)

ISend ==
  /\ At("isend") /\ k < count
  /\ req' = [kind |-> "query", chain |-> chain]
  /\ Goto("irecv")
  /\ UNCHANGED <<execute, arrived, cmds, cmd, cache, rep, crash, asked, sent>>

\* Mutant of IRecv: the loop index is not incremented.
IRecvNoIncrement ==
  /\ At("irecv") /\ rep # NoMsg
  /\ rep' = NoMsg /\ Goto("isend")
  /\ UNCHANGED <<execute, arrived, cmds, cmd, cache, req, crash, asked, sent>>

IRecv ==
  /\ At("irecv") /\ rep # NoMsg
  /\ rep' = NoMsg /\ k' = k + 1 /\ Goto("isend")
  /\ UNCHANGED <<execute, arrived, cmds, tpl, count, i, vecs, chain, cache, req, crash,
                 asked, sent>>

\* The loop ends; the result of the last reply and the average latency
\* are printed.
IDone ==
  /\ At("isend") /\ k = count
  /\ Goto("loop")
  /\ UNCHANGED <<execute, arrived, cmds, cmd, cache, req, rep, crash, asked, sent>>

-----------------------------------------------------------------------------
(* translate_req_template (lines 4-23)                                     *)

\* Mutant of TranslateHit: the vector of the first placeholder is reused.
TranslateHitFirstType ==
  /\ At("translate") /\ i <= Len(tpl.str) /\ cache[Type] # NoVec
  /\ vecs' = Append(vecs, cache[tpl.str[1]]) /\ i' = i + 1
  /\ UNCHANGED <<execute, pc, arrived, cmds, tpl, count, k, cache, chain, req, rep,
                 crash, asked, sent>>

\* The type is cached: its vector is used as it is.
TranslateHit ==
  /\ At("translate") /\ i <= Len(tpl.str) /\ cache[Type] # NoVec
  /\ vecs' = Append(vecs, cache[Type]) /\ i' = i + 1
  /\ UNCHANGED <<execute, pc, arrived, cmds, tpl, count, k, cache, chain, req, rep,
                 crash, asked, sent>>

\* assert(find_type_of(...)) fails on a type the parser does not know.
TranslateUnknown ==
  /\ At("translate") /\ i <= Len(tpl.str) /\ cache[Type] = NoVec
  /\ ~NDEBUG /\ Type \notin KnownTypes
  /\ crash' = "assert"
  /\ UNCHANGED <<execute, pc, arrived, cmds, cmd, cache, req, rep, asked, sent>>

\* Send the type request.  With NDEBUG the assert, and the find_type_of
\* call inside it, disappear: the request sent is the empty one.
TranslateAsk ==
  /\ At("translate") /\ i <= Len(tpl.str) /\ cache[Type] = NoVec
  /\ NDEBUG \/ Type \in KnownTypes
  /\ req' = IF NDEBUG THEN [kind |-> "empty"] ELSE [kind |-> "type", type |-> Type]
  /\ asked' = Append(asked, Type)
  /\ Goto("trecv")
  /\ UNCHANGED <<execute, arrived, cmds, cmd, cache, rep, crash, sent>>

\* Mutant of TranslateRecv: the vector is used but not stored in the cache.
TranslateRecvNoCache ==
  /\ At("trecv") /\ rep # NoMsg
  /\ vecs' = Append(vecs, rep.table) /\ i' = i + 1
  /\ rep' = NoMsg /\ Goto("translate")
  /\ UNCHANGED <<execute, arrived, cmds, tpl, count, k, cache, chain, req, crash, asked, sent>>

\* Recv: the reply's result table becomes the cached vector of the type.
TranslateRecv ==
  /\ At("trecv") /\ rep # NoMsg
  /\ cache' = [cache EXCEPT ![Type] = rep.table]
  /\ vecs' = Append(vecs, rep.table) /\ i' = i + 1
  /\ rep' = NoMsg /\ Goto("translate")
  /\ UNCHANGED <<execute, arrived, cmds, tpl, count, k, chain, req, crash, asked, sent>>

TranslateDone ==
  /\ At("translate") /\ i > Len(tpl.str)
  /\ Goto("instantiate")
  /\ UNCHANGED <<execute, arrived, cmds, cmd, cache, req, rep, crash, asked, sent>>

-----------------------------------------------------------------------------
(* The loop of batch_execute (lines 94-107) and instantiate_request        *)
(* (lines 25-32).                                                          *)

\* get_random() % size() with an empty vector: division by zero (SIGFPE).
InstantiateCrash ==
  /\ At("instantiate") /\ k < count
  /\ \E j \in 1..Len(tpl.pos) : vecs[j] = {}
  /\ crash' = "sigfpe"
  /\ UNCHANGED <<execute, pc, arrived, cmds, cmd, cache, req, rep, asked, sent>>

\* Each placeholder position gets a random element of its vector, then
\* the request is sent.
InstantiateSend ==
  /\ At("instantiate") /\ k < count
  /\ \A j \in 1..Len(tpl.pos) : vecs[j] # {}
  /\ \E pick \in [Positions -> Ids] :
       /\ \A j \in 1..Len(tpl.pos) : pick[tpl.pos[j]] \in vecs[j]
       /\ chain' = [p \in Positions |-> IF p \in ToSet(tpl.pos) THEN pick[p] ELSE chain[p]]
  /\ req' = [kind |-> "query", chain |-> chain']
  /\ sent' = sent \cup {[tpl |-> tpl, chain |-> chain']}
  /\ Goto("qrecv")
  /\ UNCHANGED <<execute, arrived, cmds, tpl, count, k, i, vecs, cache, rep, crash, asked>>

\* Mutant of QueryRecv: the loop index is not incremented.
QueryRecvNoIncrement ==
  /\ At("qrecv") /\ rep # NoMsg
  /\ rep' = NoMsg /\ Goto("instantiate")
  /\ UNCHANGED <<execute, arrived, cmds, cmd, cache, req, crash, asked, sent>>

QueryRecv ==
  /\ At("qrecv") /\ rep # NoMsg
  /\ rep' = NoMsg /\ k' = k + 1 /\ Goto("instantiate")
  /\ UNCHANGED <<execute, arrived, cmds, tpl, count, i, vecs, chain, cache, req, crash,
                 asked, sent>>

BatchDone ==
  /\ At("instantiate") /\ k = count
  /\ Goto("loop")
  /\ UNCHANGED <<execute, arrived, cmds, cmd, cache, req, rep, crash, asked, sent>>

-----------------------------------------------------------------------------
(* The server (not in the repository): one reply per request.  A type     *)
(* request gets the objects of the type; what the empty request returns   *)
(* is unknown, so it may be any table; a query's result is not read.      *)

ReplyTables(m) ==
  CASE m.kind = "type"  -> {Objects[m.type]}
    [] m.kind = "empty" -> SUBSET Ids
    [] m.kind = "query" -> {{}}

Serve ==
  /\ Alive /\ req # NoMsg
  /\ \E tab \in ReplyTables(req) : rep' = [table |-> tab]
  /\ req' = NoMsg
  /\ UNCHANGED <<execute, pc, arrived, cmds, cmd, cache, crash, asked, sent>>

-----------------------------------------------------------------------------

Init ==
  /\ pc = [r \in Ranks |-> "loop"] /\ arrived = {} /\ cmds = 0
  /\ tpl = (CHOOSE t \in Templates : TRUE) /\ count = 1 /\ k = 0 /\ i = 1
  /\ vecs = <<>> /\ cache = [t \in Types |-> NoVec]
  /\ chain = [p \in Positions |-> Fixed]
  /\ req = NoMsg /\ rep = NoMsg /\ crash = "none" /\ asked = <<>> /\ sent = {}
  /\ execute \in EXECUTES

LeaderStep ==
  \/ ReadInput \/ TranslateHit \/ TranslateUnknown \/ TranslateAsk
  \/ TranslateRecv \/ TranslateDone \/ InstantiateCrash \/ InstantiateSend
  \/ QueryRecv \/ BatchDone \/ ReadQuery \/ ISend \/ IRecv \/ IDone

\* The process is dead, or the leader has read its last input line.
Terminated ==
  /\ ~Alive \/ (pc[Leader] = "input" /\ cmds = MaxCommands)
  /\ UNCHANGED vars

Next ==
  \/ \E r \in Ranks : Arrive(r)
  \/ Release \/ LeaderStep \/ Serve \/ Terminated

Spec ==
  /\ Init /\ [][Next]_vars
  /\ \A r \in Ranks : WF_vars(Arrive(r))
  /\ WF_vars(Release) /\ WF_vars(LeaderStep) /\ WF_vars(Serve)

-----------------------------------------------------------------------------
(* Properties                                                              *)

PCs == {"loop", "barrier", "input", "translate", "trecv", "instantiate", "qrecv",
        "isend", "irecv"}
Msgs == [kind : {"type"}, type : Types] \cup [kind : {"empty"}]
        \cup [kind : {"query"}, chain : [Positions -> Ids \cup {Fixed}]]

TypeOK ==
  /\ pc \in [Ranks -> PCs] /\ arrived \subseteq Ranks
  /\ cmds \in 0..MaxCommands /\ tpl \in Templates
  /\ count \in {n \in InputCounts \cup {1} : n >= 1} /\ k \in 0..count
  /\ i \in 1..Len(tpl.str) + 1 /\ vecs \in Seq(SUBSET Ids)
  /\ cache \in [Types -> SUBSET Ids \cup {NoVec}]
  /\ chain \in [Positions -> Ids \cup {Fixed}]
  /\ req \in Msgs \cup {NoMsg} /\ rep \in [table : SUBSET Ids] \cup {NoMsg}
  /\ crash \in {"none", "assert", "sigfpe"}

\* Every query batch_execute sends has, at each placeholder position of its
\* template, an object of that placeholder's type on the server: the
\* vector translate_req_template chose for placeholder i, through the cache
\* filled by earlier commands, is the one of type i.
QueriesWellTyped ==
  \A q \in sent : \A j \in 1..Len(q.tpl.pos) :
    q.chain[q.tpl.pos[j]] \in Objects[q.tpl.str[j]]

\* type_to_idvec makes each type cost one round trip for the life of the
\* process: no type is requested from the server twice, whatever the
\* templates and commands that use it.
TypeAskedOnce ==
  \A a, b \in 1..Len(asked) : asked[a] = asked[b] => a = b

\* A command the leader starts ends (it returns to the barrier loop after
\* execute_count replies), unless the process dies.
CommandsComplete ==
  \A l \in {"translate", "trecv", "instantiate", "qrecv", "isend", "irecv"} :
    (pc[Leader] = l) ~> (pc[Leader] = "loop" \/ ~Alive)

\* instantiate_request never takes get_random() % 0.
NoDivisionByZero == crash # "sigfpe"

=============================================================================
