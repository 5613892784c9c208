------------------------------ MODULE PatchGate ------------------------------
(***************************************************************************)
(* core/patch/patch.py: the limits that a diff must respect before (or, for  *)
(* an agent that edits the tree itself, after) it changes a worktree.  What  *)
(* the diff touches is read from its header lines by GitDiffParser, line by  *)
(* line, without looking at where hunks begin and end.                       *)
(***************************************************************************)
EXTENDS Naturals, Sequences, FiniteSets, SequencesExt

CONSTANTS
    ChangeSets,     \* sequences of changes of one diff
    Limits          \* [max_files, reject_binary, size_ok, worktree], sets of which

VARIABLES
    changes, limit, \* what the diff does, and the configuration
    lines, pos,     \* the diff, and the next line
    has_file_header, paths, binary_paths, section_paths,    \* GitDiffParser
    status          \* "parsing", or a PatchApplyStatus

pvars == <<changes, limit, lines, pos, has_file_header, paths, binary_paths, section_paths, status>>

(* A change: what kind, of which file, to which name, and what its hunk
   contains.  Names are those of the repository; git writes a name that is
   not ASCII in quotes, and then the prefix a/ or b/ is inside them.         *)
Null == "/dev/null"
Quoted(name) == name = "quoted"
Shown(side, name) == IF Quoted(name) THEN <<side, name>> ELSE <<"", name>>

(* git diff of one change.                                                  *)
Line(kind, old, new) == [kind |-> kind, old |-> old, new |-> new]
Header(c) == Line(IF Quoted(c.old) \/ Quoted(c.new) THEN "loose" ELSE "git", Shown("a", c.old), Shown("b", c.new))
OldFile(c) == Line("old", IF c.kind = "add" THEN <<"", Null>> ELSE Shown("a", c.old), <<"", Null>>)
NewFile(c) == Line("new", <<"", Null>>, IF c.kind = "delete" THEN <<"", Null>> ELSE Shown("b", c.new))
Content == Line("content", <<"", Null>>, <<"", Null>>)
(* A removed line "-- note", an added line "++ note", and plain ones.       *)
Hunk(c) ==
    CASE c.text = "plain" -> <<Content>>
      [] c.text = "dashes" -> <<Content, Line("old", <<"", "note">>, <<"", Null>>)>>
Rendered(c) ==
    CASE c.kind \in {"modify", "add", "delete"} -> <<Header(c), OldFile(c), NewFile(c)>> \o Hunk(c)
      [] c.kind = "rename" -> <<Header(c), Line("from", <<"", c.old>>, <<"", Null>>), Line("to", <<"", Null>>, <<"", c.new>>)>>
      [] c.kind = "mode" -> <<Header(c), Content>>
      [] c.kind = "binary" -> <<Header(c), Line("binary", Shown("a", c.old), Shown("b", c.new))>>
      [] c.kind = "binary_patch" -> <<Header(c), Line("git_binary", <<"", Null>>, <<"", Null>>), Line("literal", <<"", Null>>, <<"", Null>>)>>
      [] c.kind = "garbage" -> <<Line("malformed", <<"", Null>>, <<"", Null>>)>>
      [] c.kind = "prose" -> <<Content>>

Diff(cs) == FoldLeft(LAMBDA acc, c : acc \o Rendered(c), <<>>, cs)

Start(cs, l) ==
    /\ changes = cs /\ limit = l
    /\ lines = Diff(cs) /\ pos = 1
    /\ has_file_header = FALSE /\ paths = {} /\ binary_paths = {} /\ section_paths = {}
    /\ status = "parsing"
Init == \E cs \in ChangeSets, l \in Limits : Start(cs, l)

----------------------------------------------------------------------------
(* GitDiffParser: the handlers, in the order they are tried.                *)

Normalized(raw) == IF raw[2] = Null THEN {} ELSE {raw}
HeaderPaths(line) == Normalized(line.old) \cup Normalized(line.new)
At(kinds) ==
    /\ status = "parsing" /\ limit.size_ok /\ pos <= Len(lines) /\ lines[pos].kind \in kinds
    /\ pos' = pos + 1
    /\ UNCHANGED <<changes, limit, lines>>

(* diff --git begins a section, in its strict and its loose form.           *)
FileSectionOnly ==                          \* mutant: counts what --- and +++ name
    /\ At({"git", "loose"})
    /\ has_file_header' = TRUE /\ section_paths' = HeaderPaths(lines[pos])
    /\ UNCHANGED <<paths, binary_paths, status>>
FileSection ==
    /\ At({"git", "loose"})
    /\ has_file_header' = TRUE
    /\ section_paths' = HeaderPaths(lines[pos]) /\ paths' = paths \cup HeaderPaths(lines[pos])
    /\ UNCHANGED <<binary_paths, status>>

Malformed ==
    /\ At({"malformed"})
    /\ status' = "invalid_diff"
    /\ UNCHANGED <<has_file_header, paths, binary_paths, section_paths>>

(* --- and +++: any line that begins so, also one of a hunk.                *)
OldOrNewFile ==
    /\ At({"old", "new"})
    /\ has_file_header' = TRUE
    /\ section_paths' = section_paths \cup HeaderPaths(lines[pos])
    /\ paths' = paths \cup HeaderPaths(lines[pos])
    /\ UNCHANGED <<binary_paths, status>>

RenameOrCopy ==
    /\ At({"from", "to"})
    /\ section_paths' = section_paths \cup HeaderPaths(lines[pos])
    /\ paths' = paths \cup HeaderPaths(lines[pos])
    /\ UNCHANGED <<has_file_header, binary_paths, status>>

BinaryFiles ==
    /\ At({"binary"})
    /\ has_file_header' = TRUE
    /\ section_paths' = section_paths \cup HeaderPaths(lines[pos])
    /\ paths' = paths \cup HeaderPaths(lines[pos])
    /\ binary_paths' = binary_paths \cup HeaderPaths(lines[pos])
    /\ UNCHANGED status

(* _record_binary_fallback: the section, or all, or an unknown file.        *)
NoFallback == {}                            \* mutant: only "Binary files" lines count
Fallback == IF section_paths # {} THEN section_paths ELSE IF paths # {} THEN paths ELSE {<<"", "(unknown)">>}
BinaryMarker ==
    /\ At({"git_binary", "literal"})
    /\ binary_paths' = binary_paths \cup Fallback
    /\ UNCHANGED <<has_file_header, paths, section_paths, status>>

OtherLine ==
    /\ At({"content"})
    /\ UNCHANGED <<has_file_header, paths, binary_paths, section_paths, status>>

----------------------------------------------------------------------------
(* validate_patch_text: the gates, in order.                                *)

Unsafe(path) == path[2] = "../outside"
NoHeader == ~has_file_header \/ (paths = {} /\ binary_paths = {})
Gate ==
    /\ status = "parsing"
    /\ \/ lines = <<>> /\ status' = "empty_diff"
       \/ lines # <<>> /\ ~limit.size_ok /\ status' = "too_large"
       \/ lines # <<>> /\ limit.size_ok /\ pos > Len(lines)
          /\ status' = IF NoHeader THEN "invalid_diff"
                       ELSE IF Cardinality(paths) > limit.max_files THEN "too_many_files"
                       ELSE IF limit.reject_binary /\ binary_paths # {} THEN "binary_rejected"
                       ELSE IF ~limit.worktree THEN "worktree_missing"
                       ELSE IF \E p \in paths : Unsafe(p) THEN "unsafe_path"
                       ELSE "checked_ok"
    /\ UNCHANGED <<changes, limit, lines, pos, has_file_header, paths, binary_paths, section_paths>>

Next ==
    \/ FileSection \/ Malformed \/ OldOrNewFile \/ RenameOrCopy \/ BinaryFiles \/ BinaryMarker
    \/ OtherLine \/ Gate

Spec == Init /\ [][Next]_pvars

----------------------------------------------------------------------------
(* Properties.                                                              *)

(* The variables have the values the code gives them.                       *)
TypeOK ==
    /\ pos \in 1..(Len(lines) + 1)
    /\ section_paths \subseteq paths
    /\ status \in {"parsing", "empty_diff", "too_large", "invalid_diff", "too_many_files",
                   "binary_rejected", "worktree_missing", "unsafe_path", "checked_ok"}

Touching == {c \in ToSet(changes) : c.kind \notin {"prose", "garbage"}}
Files == UNION {{c.old, c.new} : c \in Touching}
Binary == {c \in Touching : c.kind \in {"binary", "binary_patch"}}

(* A diff that passes the gate touches no more files than allowed, none of
   them outside the worktree and, where that is refused, none of them
   binary, whatever kinds of change it mixes (patch.py:1).                   *)
PassedIsWithinLimits ==
    status = "checked_ok" =>
        /\ Cardinality(Files) <= limit.max_files
        /\ "../outside" \notin Files
        /\ limit.reject_binary => Binary = {}
        /\ limit.worktree
=============================================================================
