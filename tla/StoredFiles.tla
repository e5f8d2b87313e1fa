---------------------------- MODULE StoredFiles ----------------------------
(* A file as a later run of a tool finds it: missing, truncated by a write  *)
(* that did not end, or whole with some content.  os.WriteFile and          *)
(* os.Create truncate a file in place before they fill it.                  *)
Missing == [is |-> "missing", holds |-> <<>>]
Torn    == [is |-> "torn", holds |-> <<>>]
Whole(content) == [is |-> "whole", holds |-> content]
IsWhole(file) == file.is = "whole"
=============================================================================
