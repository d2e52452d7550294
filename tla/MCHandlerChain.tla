---------------------------- MODULE MCHandlerChain ----------------------------
(* TLC instances of HandlerChain: two methods, four paths, and a catalogue  *)
(* of handlers that pass requests on to one another.                         *)
EXTENDS HandlerChain, TLC

CONSTANTS GET, POST, BREW, NotGET, NotPOST, NotBREW, NotNot, a, b, c, d

Known == {GET, POST}
Unknown == {BREW, NotGET}
Carets == (GET :> NotGET @@ POST :> NotPOST @@ BREW :> NotBREW @@ NotGET :> NotNot)
Paths == {a, b, c, d}
Below == {a, b}
Kinds == (a :> "file" @@ b :> "dir" @@ c :> "none" @@ d :> "dir")
Indexes == (a :> "none" @@ b :> "file" @@ c :> "none" @@ d :> "unreadable")

All == [sign |-> "*", name |-> GET]
Not(m) == [sign |-> "^", name |-> m]
Only(m) == [sign |-> "", name |-> m]

Plain(class, ms, set, to) ==
  [bActive |-> TRUE, sClass |-> class, methods |-> ms, valid |-> TRUE, matches |-> set,
   replace |-> [p \in Paths |-> to], bMatchIsFinal |-> FALSE,
   hasIndex |-> FALSE, bListDirs |-> FALSE]

Rewrites == {Plain("RewritePath", <<>>, {a, c}, b),
             Plain("RewritePath", <<Only(POST)>>, {b}, a),
             [Plain("RewritePath", <<All>>, {a, b}, c) EXCEPT !.bMatchIsFinal = TRUE]}
Answering == {Plain("Drop", <<Not(GET), All>>, {b, c}, c),
              Plain("Redirect", <<>>, {b}, a),
              Plain("FileServer", <<Only(GET)>>, {a, b}, a),
              [Plain("FileServer", <<>>, Paths, b) EXCEPT !.bListDirs = TRUE],
              [Plain("FileServer", <<>>, {a, c}, b) EXCEPT !.hasIndex = TRUE],
              [Plain("FileServer", <<>>, Paths, d) EXCEPT !.hasIndex = TRUE]}
Dropped == {Plain("Base", <<>>, Paths, a),
            [Plain("Drop", <<>>, Paths, a) EXCEPT !.valid = FALSE],
            [Plain("Drop", <<>>, Paths, a) EXCEPT !.bActive = FALSE],
            Plain("Drop", <<Only(BREW)>>, Paths, a)}
Catalogue == Rewrites \cup Answering \cup Dropped

\* Every list of up to three method entries.
Tokens == {All} \cup {Not(m) : m \in {GET, POST, BREW}} \cup {Only(m) : m \in {GET, POST, BREW}}
Lists == UNION {[1 .. n -> Tokens] : n \in 0 .. 3}
Redirects == {Plain("Redirect", list, {b}, a) : list \in Lists}

\* Every chain of up to three handlers of the catalogue, and one handler with
\* every list of methods.
Chains == UNION {[1 .. n -> Catalogue] : n \in 0 .. 3} \cup [1 .. 1 -> Redirects]
===============================================================================
