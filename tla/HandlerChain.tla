----------------------------- MODULE HandlerChain -----------------------------
(***************************************************************************)
(* How ModuleHTTPSserver decides about a request: a chain of handlers,     *)
(* built once from the configuration (initHandlers, onAppendHandler, the   *)
(* handlers' init), and asked in order by onNextHandler.  A handler answers*)
(* the request, or rewrites its path, or passes it on by the signal        *)
(* nextHandler, which calls onNextHandler again before it returns.  All of *)
(* it happens within the event that brought the request; a step of this    *)
(* module is one turn of onNextHandler's loop and what it calls.           *)
(*                                                                         *)
(* A regular expression is what it does to paths: whether it is valid, the *)
(* paths it matches and what replace() makes of each of them.              *)
(***************************************************************************)
EXTENDS Integers, Sequences

CONSTANTS KnownMethod,   \* allGenerllyUsedHTTPmethods()
          OtherMethod,   \* methods a client may name all the same
          Caret,         \* "^" + sMethod; of these OtherMethod may hold some
          Path,          \* the paths requests name and rewrites produce
          HandlerLists,  \* what "aHandlers" may be: lists of ConfType
          IndexModulus,  \* 2^8: ubHandlerIndex is a quint8
          FileKind,      \* [Path -> what the file system has there]
          IndexKind,     \* [Path -> what it has at the index file below it]
          BasePath       \* paths below one of the server's base paths

Method == KnownMethod \cup OtherMethod

\* A member of the list of methods: "*", "^GET" or "GET".
Token == [sign : {"*", "^", ""}, name : Method]
ConfType ==
  [bActive : BOOLEAN,
   sClass  : {"Base", "Drop", "FileServer", "Redirect", "RewritePath", "unknown"},
   methods : Seq(Token),
   valid   : BOOLEAN,            \* the pattern "sSearch"
   matches : SUBSET Path,
   replace : [Path -> Path],     \* "sReplace"
   bMatchIsFinal : BOOLEAN,      \* "bLeaveRewritesOnMatch"
   hasIndex  : BOOLEAN,          \* the directory index is not empty
   bListDirs : BOOLEAN]

ASSUME ChainAssumption ==
  /\ HandlerLists \subseteq Seq(ConfType)
  /\ IndexModulus \in Nat \ {0}
  /\ \A m, n \in Method : Caret[m] \notin KnownMethod /\ (Caret[m] = Caret[n] => m = n)
  /\ FileKind \in [Path -> {"none", "hidden", "file", "unreadable", "dir"}]
  /\ IndexKind \in [Path -> {"none", "file", "unreadable"}]

VARIABLES
  todo,            \* entries of "aHandlers" initHandlers has yet to append
  apHandlers,      \* ModuleHTTPSserver::apHandlers
  phase,           \* of the request: "none", "polling", "answered"
  sMethod,         \* WWWSrequest::sMethod
  sTargetOriginal, \* the path of WWWSrequest::sTargetOriginal
  sTarget,         \* the path of WWWSrequest::sTarget
  ubHandlerIndex,  \* WWWSrequest::ubHandlerIndex
  bRewritesDone,   \* WWWSrequest::bRewritesDone
  answers          \* what the server was told to do with the request

requestVars == <<sMethod, sTargetOriginal, sTarget, ubHandlerIndex, bRewritesDone>>
chainVars == <<todo, apHandlers, phase, requestVars, answers>>

-------------------------------------------------------------------------------
(* initMethods. *)

\* The loop over the list: negations of known methods are always collected,
\* single methods only as long as no "*" came; an empty list counts as "*".
Negated(list)  == {list[i].name : i \in {i \in DOMAIN list : list[i].sign = "^"}}
BeforeAll(list) == {i \in DOMAIN list : \A j \in 1 .. i : list[j].sign # "*"}
Listed(list)   == {list[i].name : i \in {i \in BeforeAll(list) : list[i].sign = ""}}
bAllAdded(list) == list = <<>> \/ \E i \in DOMAIN list : list[i].sign = "*"

\* Mutants: negations forgotten when all methods are added; methods nobody
\* knows let in.
initMethodsIgnoringNots(list) ==
  LET nots == Negated(list) \cap KnownMethod
      valid == IF bAllAdded(list) THEN KnownMethod ELSE Listed(list) \cap KnownMethod
  IN [nots |-> nots, yes |-> valid]

initMethodsUnchecked(list) ==
  LET nots == Negated(list) \cap KnownMethod
      valid == IF bAllAdded(list) THEN KnownMethod ELSE Listed(list)
  IN [nots |-> nots, yes |-> valid \ nots]

\* asMethods, as its negations and its methods.
initMethods(list) ==
  LET nots == Negated(list) \cap KnownMethod
      valid == IF bAllAdded(list) THEN KnownMethod ELSE Listed(list) \cap KnownMethod
  IN [nots |-> nots, yes |-> valid \ nots]

-------------------------------------------------------------------------------
(* Building the chain. *)

\* init() leaves a handler active if its list of methods is not empty and its
\* pattern is valid; any other is deleted again.
Initializes(conf) ==
  /\ conf.bActive
  /\ conf.sClass \notin {"Base", "unknown"}
  /\ LET m == initMethods(conf.methods) IN m.nots \cup m.yes # {}
  /\ conf.valid

NewHandler(conf) ==
  LET m == initMethods(conf.methods)
  IN [conf |-> conf, nots |-> m.nots, yes |-> m.yes]

onAppendHandler ==
  /\ todo # <<>>
  /\ todo' = Tail(todo)
  /\ LET conf == Head(todo)
     IN apHandlers' = IF Initializes(conf)
                      THEN Append(apHandlers, NewHandler(conf))
                      ELSE apHandlers
  /\ UNCHANGED <<phase, requestVars, answers>>

-------------------------------------------------------------------------------
(* Requests. *)

onRequest(m, p) ==
  /\ todo = <<>>
  /\ phase # "polling"
  /\ phase' = "polling"
  /\ sMethod' = m
  /\ sTargetOriginal' = p /\ sTarget' = p
  /\ ubHandlerIndex' = 0
  /\ bRewritesDone' = FALSE
  /\ answers' = <<>>
  /\ UNCHANGED <<todo, apHandlers>>

Answer(what) ==
  /\ answers' = Append(answers, what)
  /\ phase' = "answered"
  /\ UNCHANGED <<sTarget, bRewritesDone>>

NextHandler == UNCHANGED <<phase, sTarget, bRewritesDone, answers>>

\* Mutant: neither ignored nor passed on.
HandleDropSilently ==
  /\ phase' = "none"
  /\ UNCHANGED <<sTarget, bRewritesDone, answers>>

HandleDrop == Answer(<<"ignore">>)

\* Mutant: no return after the answer.
HandleRedirectGoesOn(conf) ==
  /\ answers' = Append(answers, <<"301", conf.replace[sTarget]>>)
  /\ UNCHANGED <<phase, sTarget, bRewritesDone>>

HandleRedirect(conf) == Answer(<<"301", conf.replace[sTarget]>>)

HandleRewrite(conf) ==
  /\ bRewritesDone' = (bRewritesDone \/ conf.bMatchIsFinal)
  /\ sTarget' = conf.replace[sTarget]
  /\ UNCHANGED <<phase, answers>>

\* respondFile opens the file once more, and answers 404 should that fail.
RespondFile(p) == Answer(<<"file", p>>) \/ Answer(<<"404">>)

RespondDirectoryList(p) ==
  Answer(IF p \in BasePath THEN <<"list", p>> ELSE <<"404">>)

HandleFileServer(conf) ==
  LET p == conf.replace[sTarget]
      index == IF conf.hasIndex THEN IndexKind[p] ELSE "none"
  IN CASE FileKind[p] = "file"                        -> RespondFile(p)
       [] FileKind[p] = "dir" /\ index = "file"       -> RespondFile(<<p, "index">>)
       [] FileKind[p] = "dir" /\ index = "unreadable" -> Answer(<<"404">>)
       [] FileKind[p] = "dir" /\ index = "none" /\ conf.bListDirs
                                                      -> RespondDirectoryList(p)
       [] OTHER                                       -> Answer(<<"404">>)

\* A handler that does not match passes the request on.
Handle(conf) ==
  IF sTarget \notin conf.matches THEN NextHandler
  ELSE CASE conf.sClass = "Drop"        -> HandleDrop
         [] conf.sClass = "Redirect"    -> HandleRedirect(conf)
         [] conf.sClass = "RewritePath" -> HandleRewrite(conf)
         [] conf.sClass = "FileServer"  -> HandleFileServer(conf)

\* methods(), the strings: negations with their "^", then the methods.
methods(h) == {Caret[m] : m \in h.nots} \cup h.yes

\* Mutants: only negations looked at; rewriting goes on after a final match.
SkipsRefusedOnly(h) == \/ Caret[sMethod] \in methods(h)
                       \/ h.conf.sClass = "RewritePath" /\ bRewritesDone

SkipsNoFinal(h) == \/ Caret[sMethod] \in methods(h)
                   \/ sMethod \notin methods(h)

\* onNextHandler skips handlers that refuse the method, do not list it, or
\* rewrite when rewriting is over.  A client's own "^GET" is listed where GET
\* is refused.
Skips(h) == \/ Caret[sMethod] \in methods(h)
            \/ sMethod \notin methods(h)
            \/ h.conf.sClass = "RewritePath" /\ bRewritesDone

Poll ==
  /\ phase = "polling"
  /\ Len(apHandlers) > ubHandlerIndex
  /\ ubHandlerIndex' = (ubHandlerIndex + 1) % IndexModulus
  /\ LET h == apHandlers[ubHandlerIndex + 1]
     IN IF Skips(h) THEN NextHandler ELSE Handle(h.conf)
  /\ UNCHANGED <<todo, apHandlers, sMethod, sTargetOriginal>>

\* Every handler was asked.
NoHandler ==
  /\ phase = "polling"
  /\ Len(apHandlers) <= ubHandlerIndex
  /\ Answer(<<"404">>)
  /\ UNCHANGED <<todo, apHandlers, sMethod, sTargetOriginal, ubHandlerIndex>>

-------------------------------------------------------------------------------
ChainInit ==
  /\ todo \in HandlerLists
  /\ apHandlers = <<>>
  /\ phase = "none"
  /\ sMethod \in Method
  /\ sTargetOriginal \in Path
  /\ sTarget = sTargetOriginal
  /\ ubHandlerIndex = 0
  /\ bRewritesDone = FALSE
  /\ answers = <<>>

ChainNext == \/ onAppendHandler
             \/ \E m \in Method, p \in Path : onRequest(m, p)
             \/ Poll \/ NoHandler

ChainSpec == ChainInit /\ [][ChainNext]_chainVars

\* The loop and the calls it makes go on by themselves.
ChainFairSpec == ChainSpec /\ WF_chainVars(Poll \/ NoHandler)

-------------------------------------------------------------------------------
(* Properties. *)

Handler == [conf : ConfType, nots : SUBSET KnownMethod, yes : SUBSET KnownMethod]

ChainTypeOK ==
  /\ todo \in Seq(ConfType)
  /\ apHandlers \in Seq(Handler)
  /\ phase \in {"none", "polling", "answered"}
  /\ sMethod \in Method
  /\ sTargetOriginal \in Path
  /\ sTarget \in Path
  /\ ubHandlerIndex \in 0 .. IndexModulus - 1
  /\ bRewritesDone \in BOOLEAN
  /\ phase # "answered" => answers = <<>>

\* What the list of methods means, whatever the order and repetition of its
\* entries: the methods named, or all for "*" and for no entry, save those
\* negated.
Meant(list) ==
  LET has(sign, name) == \E i \in DOMAIN list : list[i].sign = sign /\ list[i].name = name
  IN {m \in KnownMethod : /\ \/ list = <<>>
                             \/ \E i \in DOMAIN list : list[i].sign = "*"
                             \/ has("", m)
                          /\ ~has("^", m)}

\* initMethods (MHTTPSShandlerBase.cpp:80) computes what the list means.
MethodsAsMeant ==
  \A i \in DOMAIN apHandlers :
    apHandlers[i].yes = Meant(apHandlers[i].conf.methods)

\* The comment at MHTTPSShandlerBase.cpp:139 says "deactivate if no methods":
\* a handler in the chain accepts some method.
ActiveHasMethods == \A i \in DOMAIN apHandlers : apHandlers[i].yes # {}

\* A request is answered exactly once: handlers that answer do not pass on, and
\* handlers that pass on do not answer (onNextHandler returns at line 252).
AnsweredOnce == Len(answers) = (IF phase = "answered" THEN 1 ELSE 0)

\* The methods a handler takes: those its list means, and the text of those the
\* list refuses ("^GET" for GET), which the code keeps among them.
TakesMethod(i) ==
  LET list == apHandlers[i].conf.methods
  IN sMethod \in Meant(list) \cup {Caret[m] : m \in Negated(list) \cap KnownMethod}
Rewriter(i)  == apHandlers[i].conf.sClass = "RewritePath"

\* What the i-th handler makes of a request: rewriters that accept the method
\* and match change its path, up to the first of them that is final.
Rewritten(i, q) ==
  LET conf == apHandlers[i].conf
  IN IF Rewriter(i) /\ TakesMethod(i) /\ ~q.done /\ q.path \in conf.matches
     THEN [path |-> conf.replace[q.path], done |-> conf.bMatchIsFinal]
     ELSE q

\* The request as it came, and after each of the first n handlers.
Course(n) ==
  LET so[i \in 0 .. n] == IF i = 0 THEN [path |-> sTargetOriginal, done |-> FALSE]
                          ELSE Rewritten(i, so[i - 1])
  IN so

\* The handlers asked so far that want the request and do not merely rewrite it.
Takers ==
  LET so == Course(ubHandlerIndex)
  IN {i \in 1 .. ubHandlerIndex :
        TakesMethod(i) /\ ~Rewriter(i) /\ so[i - 1].path \in apHandlers[i].conf.matches}

\* An answer that a handler of this configuration may give for a path.
AnswerOf(conf, p) ==
  LET q == conf.replace[p]
  IN CASE conf.sClass = "Drop"     -> {<<"ignore">>}
       [] conf.sClass = "Redirect" -> {<<"301", q>>}
       [] OTHER -> {<<"404">>}
                     \cup (IF FileKind[q] = "file" THEN {<<"file", q>>} ELSE {})
                     \cup (IF FileKind[q] = "dir" /\ conf.hasIndex
                           THEN {<<"file", <<q, "index">>>>} ELSE {})
                     \cup (IF FileKind[q] = "dir" /\ conf.bListDirs /\ q \in BasePath
                           THEN {<<"list", q>>} ELSE {})

\* The first handler that wants a request is the one that answers it, for the
\* path the rewriters before it made; the answer is 404 if the whole chain was
\* asked and no handler wants it.  The chain is one ubHandlerIndex can count.
FirstTakerAnswers ==
  phase = "answered" /\ Len(apHandlers) < IndexModulus =>
    \/ /\ Takers = {ubHandlerIndex}
       /\ answers[1] \in AnswerOf(apHandlers[ubHandlerIndex].conf,
                                 Course(ubHandlerIndex)[ubHandlerIndex - 1].path)
    \/ /\ Takers = {} /\ ubHandlerIndex = Len(apHandlers)
       /\ answers = <<(<<"404">>)>>

\* "bLeaveRewritesOnMatch": after a final match the request keeps its path
\* until it is answered.
FinalIsFinal == [][bRewritesDone /\ phase = "polling" => sTarget' = sTarget]_chainVars

\* Every request is answered in the end, whatever the chain, as long as it is
\* shorter than what ubHandlerIndex can count.
AllAnswered == phase = "polling" ~> phase = "answered"

\* Whatever the chain was made of, each request gets one answer, from handlers
\* whose methods are those their configuration means.
OneAnswer == ChainTypeOK /\ MethodsAsMeant /\ AnsweredOnce
===============================================================================
