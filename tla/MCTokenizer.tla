---------------------------- MODULE MCTokenizer ----------------------------
(***************************************************************************)
(* Instances of Tokenizer for TLC: every short file, and longer ones of    *)
(* the characters that meet in splicing, comments and numbers.             *)
(***************************************************************************)
EXTENDS Tokenizer

FilesOf(S, most) == UNION {[1 .. k -> S] : k \in 0 .. most}

MCFiles ==
  FilesOf(Chars, 3) \cup FilesOf({"bs", "nl", "a", "/"}, 5) \cup FilesOf({"/", "*", "nl", "a"}, 6)
    \cup FilesOf({"1", ".", "nl", "sp"}, 5) \cup FilesOf({"quote", "bs", "a"}, 5)
    \cup FilesOf({"tick", "bs", "1", "nl"}, 5)
=============================================================================
