------------------------------ MODULE Programs ------------------------------
(***************************************************************************)
(* A program opens a database and uses it: any program that marks and      *)
(* erases bookmarks, or one of three programs of idalib/examples, which    *)
(* have modules of their own.  Whatever it does, the guarantees of         *)
(* Bookmarks hold; those of an example hold while it is that program.      *)
(***************************************************************************)
EXTENDS Bookmarks

CONSTANTS
    Starts, Old,                     \* of BookmarksLs
    Top, Functions, MaxFound,        \* of SearchIter
    Insns, Sizes, Chars, MaxSeen     \* of DecryptStrings

VARIABLES
    program,                                            \* which program it is
    pass, turn,                                         \* of BookmarksLs and CommentsLs
    named,                                              \* of BookmarksLs
    heads, imms, cmts, fcmts, skips, kind, edited,      \* of SearchIter
    cur, found, exhausted,                              \* of SearchIter
    seen, enc, stored, phase, text                      \* of DecryptStrings

bookmarks == <<vars, named>>
loop == <<pass, turn>>
comments == <<heads, imms, cmts, fcmts, skips, kind, edited, cur, found, exhausted>>
strings == <<seen, enc, stored, phase, text>>
programVars == <<program, bookmarks, loop, comments, strings>>

BookmarksLs == INSTANCE BookmarksLs
CommentsLs == INSTANCE CommentsLs
DecryptStrings == INSTANCE DecryptStrings

\* What a program does not use keeps one value.
NoBookmarks == Init /\ named = {}
NoLoop == pass = "none" /\ turn = 0
NoComments ==
    /\ heads = {} /\ imms = {} /\ cmts = {} /\ fcmts = {} /\ kind = "text"
    /\ skips = FALSE /\ edited = FALSE /\ cur = 0 /\ found = <<>> /\ exhausted = FALSE
NoStrings == DecryptStrings!Init

ProgramInit ==
    \/ program = "any" /\ NoBookmarks /\ NoLoop /\ NoComments /\ NoStrings
    \/ program = "bookmarks_ls" /\ BookmarksLs!Init /\ NoComments /\ NoStrings
    \/ program = "comments_ls" /\ CommentsLs!Init /\ NoBookmarks /\ NoStrings
    \/ program = "decrypt_strings" /\ DecryptStrings!Init
         /\ NoBookmarks /\ NoLoop /\ NoComments

ProgramNext ==
    /\ UNCHANGED program
    /\ \/ program = "any" /\ Next /\ UNCHANGED <<named, loop, comments, strings>>
       \/ program = "bookmarks_ls" /\ BookmarksLs!Next /\ UNCHANGED <<comments, strings>>
       \/ program = "comments_ls" /\ CommentsLs!Next /\ UNCHANGED <<bookmarks, strings>>
       \/ program = "decrypt_strings" /\ DecryptStrings!Next
            /\ UNCHANGED <<bookmarks, loop, comments>>

ProgramSpec == ProgramInit /\ [][ProgramNext]_programVars

-----------------------------------------------------------------------------
\* Each assertion of the two examples that check themselves holds; the modules of
\* the examples say which those are and what the programs start from.
AssertionsHold ==
    /\ program = "bookmarks_ls" => BookmarksLs!AssertionsHold
    /\ program = "comments_ls" => CommentsLs!AssertionsHold

\* The third example decrypts the argument of the call it looks at.
ArgumentIsDecrypted == program = "decrypt_strings" => DecryptStrings!ArgumentIsDecrypted
=============================================================================
