---------------------------- MODULE MCPathParser ----------------------------
(* Ways to begin a path: a drive, a drive without "/", a letter, nothing. *)
EXTENDS PathParser, TLC

MCPrefixes == {<<"0", ":", "/">>, <<"0", ":">>, <<"a", ":", "/">>, <<>>}

(* A letter in both cases, and two characters without a case: str_to_lower *)
(* makes an "A" of one, and wraps round with the other.                    *)
MCCode ==
  "a" :> 97 @@ "A" :> 65 @@ "!" :> 33 @@ "{" :> 123 @@ "/" :> 47 @@ ":" :> 58 @@ "0" :> 48
=============================================================================
