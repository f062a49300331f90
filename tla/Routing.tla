------------------------------- MODULE Routing -------------------------------
(***************************************************************************)
(* HttpServer::dispatch: whom a request is for.                            *)
(***************************************************************************)
EXTENDS Integers, Sequences

\* A path is the sequence of what stands between its slashes: "/" is <<"", "">>.
\* splitPath drops what is empty.
SplitPath(path) == SelectSeq(path, LAMBDA part : part # "")

Parameter == "{id}"

MatchRoute(pattern, path) ==
  LET want == SplitPath(pattern)
      have == SplitPath(path)
  IN  Len(want) = Len(have) /\ \A i \in DOMAIN want : want[i] \in {have[i], Parameter}

\* What takes the place of the parameter of pattern in path.
PathParam(pattern, path) ==
  LET want == SplitPath(pattern) IN
  SplitPath(path)[CHOOSE i \in DOMAIN want : want[i] = Parameter]

\* A name with two dots in a row is refused, "/" is the index; of an empty path
\* substr(1) throws, and onMessage answers 500.  What follows the first slash
\* names a file below the static root, unless it begins with a slash too: then
\* it is an absolute path and takes the place of the root.
ServeStatic(path, files, dotted) ==
  CASE path = <<>> -> 500
    [] \E i \in DOMAIN path : path[i] \in dotted -> 400
    [] OTHER -> IF (IF path = <<"", "">> THEN <<"index.html">> ELSE Tail(path)) \in files
                THEN 200 ELSE 404

\* The first route that fits, or 0.
FirstRoute(routes, method, path) ==
  LET fits == {i \in DOMAIN routes : routes[i].method = method /\ MatchRoute(routes[i].pattern, path)}
  IN  IF fits = {} THEN 0 ELSE CHOOSE i \in fits : \A j \in fits : i =< j

\* Without a route, GET is for a file.
Dispatch(routes, method, path) ==
  LET i == FirstRoute(routes, method, path) IN
  IF i # 0 THEN routes[i].op ELSE IF method = "GET" THEN "static" ELSE "notFound"
=============================================================================
