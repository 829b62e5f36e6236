------------------------------- MODULE Ramfs -------------------------------
(***************************************************************************)
(* The RAM filesystem, kernel/fs/ramfs_core.c behind kernel/fs/fs.c, and   *)
(* its writers: kfs_init at boot, the shell's `write' and the Notes app,   *)
(* which saves its whole buffer after every key (kernel/gui/apps.c).       *)
(*                                                                         *)
(* Only the main context uses it, one call at a time.  Terminal and Notes  *)
(* share the keyboard: desktop_open_app decides which one has it.          *)
(***************************************************************************)
EXTENDS Integers, Sequences, FiniteSets

CONSTANTS
    MAX_FILES,   \* KFS_MAX_FILES
    ARENA,       \* KFS_ARENA, bytes of content
    Names,       \* file names, all shorter than RFS_NAME_MAX
    Notes,       \* "notes.txt"
    Bytes,       \* characters a user can type
    Texts,       \* contents the shell's `write' passes
    Seeds,       \* the files kfs_init writes, <<name, text>> in order
    NO_MAX       \* characters the Notes buffer holds (1023)

NoByte == "no byte"
NoName == "no name"      \* the empty name, name[0] = '\0'

ASSUME RamfsAssumption ==
    /\ MAX_FILES \in Nat /\ ARENA \in Nat /\ NO_MAX \in Nat
    /\ Notes \in Names /\ NoName \notin Names /\ NoByte \notin Bytes
    /\ Texts \subseteq Seq(Bytes)
    /\ Seeds \in Seq(Names \X Seq(Bytes))

VARIABLES
    files,       \* the table: used, name, off, size
    count,
    arena, arena_used,
    booted,      \* files kfs_init has written
    notes_open,  \* g_app = APP_NOTES
    no_buf,      \* the first no_len characters of Notes' buffer
    edited,      \* history: a key has reached Notes since it was opened
    asked        \* history: the name and text of the latest write

vars == <<files, count, arena, arena_used, booted, notes_open, no_buf, edited,
          asked>>

fs == <<files, count, arena, arena_used>>

Slots == 0 .. MAX_FILES - 1
Cells == 0 .. ARENA - 1

NoRequest == <<>>
Absent == <<NoByte>>     \* no content of a file

\* ramfs_init.
Init ==
    /\ files = [i \in Slots |-> [used |-> FALSE, name |-> NoName,
                                 off |-> 0, size |-> 0]]
    /\ count = 0
    /\ arena = [i \in Cells |-> NoByte] /\ arena_used = 0
    /\ booted = 0
    /\ notes_open = FALSE /\ no_buf = <<>> /\ edited = FALSE
    /\ asked = NoRequest

IsFirst(i, S) == i \in S /\ \A j \in S : i <= j

\* Definitions named Mut_... are faults seeded to show that a property can
\* fail; nothing else uses them.
Mut_Holding_Unused(n) == {i \in Slots : files[i].name = n /\ files[i].size > 0}

\* Slots whose name is n; ramfs_find returns the first, or -1.
Holding(n) == {i \in Slots : files[i].used /\ files[i].name = n}

Unused == {i \in Slots : ~files[i].used}

\* ramfs_alloc_slot: the slot of the file, else the first unused one.
alloc_slot(i, n) ==
    \/ IsFirst(i, Holding(n))
    \/ Holding(n) = {} /\ IsFirst(i, Unused)

Fits(d) == arena_used + Len(d) <= ARENA

\* Content is always placed after everything written before.
PlaceFor(i, d) == arena_used

\* A write fails without effect when it has no name, or when the arena or the
\* file table is full.
CanWrite(n, d) == n # NoName /\ Fits(d) /\ (Holding(n) # {} \/ Unused # {})

ramfs_write(n, d) ==
    /\ asked' = <<n, d>>
    /\ IF CanWrite(n, d)
       THEN \E i \in Slots :
               /\ alloc_slot(i, n)
               /\ LET off == PlaceFor(i, d)
                  IN /\ arena' = [k \in Cells |-> IF k \in off .. off + Len(d) - 1
                                                  THEN d[k - off + 1] ELSE arena[k]]
                     /\ files' = [files EXCEPT ![i] = [used |-> TRUE, name |-> n,
                                                       off |-> off, size |-> Len(d)]]
               /\ arena_used' = arena_used + Len(d)
               /\ count' = IF files[i].used THEN count ELSE count + 1
       ELSE UNCHANGED fs

\* ramfs_read: what a reader of file n sees.
Content(n) ==
    IF Holding(n) = {} THEN Absent
    ELSE LET i == CHOOSE j \in Slots : IsFirst(j, Holding(n))
         IN [k \in 1 .. files[i].size |-> arena[files[i].off + k - 1]]

----------------------------------------------------------------------------

kfs_init ==
    /\ booted < Len(Seeds)
    /\ ramfs_write(Seeds[booted + 1][1], Seeds[booted + 1][2])
    /\ booted' = booted + 1
    /\ UNCHANGED <<notes_open, no_buf, edited>>

Running == booted = Len(Seeds)

\* The shell, which has the keyboard while Notes has not.
cmd_write(n, d) ==
    /\ Running /\ ~notes_open
    /\ ramfs_write(n, d)
    /\ UNCHANGED <<booted, notes_open, no_buf, edited>>

\* Opening Notes loads the file as far as the buffer goes; a theme change
\* opens it again.
app_notes_open ==
    /\ Running
    /\ notes_open' = TRUE
    /\ no_buf' = IF Content(Notes) = Absent THEN <<>>
                 ELSE SubSeq(Content(Notes), 1,
                             IF Len(Content(Notes)) < NO_MAX
                             THEN Len(Content(Notes)) ELSE NO_MAX)
    /\ edited' = FALSE
    /\ UNCHANGED <<fs, booted, asked>>

\* Esc, or another app.
leave_notes ==
    /\ notes_open
    /\ notes_open' = FALSE /\ edited' = FALSE
    /\ UNCHANGED <<fs, booted, no_buf, asked>>

\* The result of kfs_write is not looked at.
Save(buf) ==
    /\ no_buf' = buf
    /\ ramfs_write(Notes, buf)
    /\ edited' = TRUE
    /\ UNCHANGED <<booted, notes_open>>

Mut_notes_backspace_NoSave ==
    /\ notes_open
    /\ no_buf' = SubSeq(no_buf, 1, Len(no_buf) - 1)
    /\ edited' = TRUE
    /\ UNCHANGED <<fs, booted, notes_open, asked>>

notes_backspace ==
    /\ notes_open
    /\ Save(IF no_buf = <<>> THEN no_buf ELSE SubSeq(no_buf, 1, Len(no_buf) - 1))

notes_char(c) ==
    /\ notes_open
    /\ Save(IF Len(no_buf) < NO_MAX THEN Append(no_buf, c) ELSE no_buf)

Next ==
    \/ kfs_init
    \/ \E n \in Names \cup {NoName}, d \in Texts : cmd_write(n, d)
    \/ app_notes_open
    \/ leave_notes
    \/ notes_backspace
    \/ \E c \in Bytes : notes_char(c)

Spec == Init /\ [][Next]_vars

----------------------------------------------------------------------------
(* Properties.                                                             *)

TypeOK ==
    /\ files \in [Slots -> [used : BOOLEAN, name : Names \cup {NoName},
                            off : 0 .. ARENA, size : 0 .. ARENA]]
    /\ count \in 0 .. MAX_FILES
    /\ arena \in [Cells -> Bytes \cup {NoByte}]
    /\ arena_used \in 0 .. ARENA
    /\ booted \in 0 .. Len(Seeds)
    /\ notes_open \in BOOLEAN /\ edited \in BOOLEAN
    /\ no_buf \in Seq(Bytes) /\ Len(no_buf) <= NO_MAX
    /\ asked \in {NoRequest} \cup ((Names \cup {NoName}) \X Seq(Bytes))

Map == INSTANCE FileMap WITH
           Contents <- Seq(Bytes),
           content <- [n \in Names |-> Content(n)]

\* ramfs_core.h: "Create-or-replace a file's content".  A write changes the
\* file it names and no other, though files share one arena and a table of
\* recycled slots; a failed write leaves every file alone.
IsFileMap == Map!Spec

\* apps.c:176, "type to edit - autosaved to notes.txt", with its limit: text is
\* lost for lack of room only.  After a key the file holds the buffer unless
\* the arena cannot take it or there is no slot for the file.
NotesLostOnlyWhenFull ==
    notes_open /\ edited =>
        \/ Content(Notes) = no_buf
        \/ ~CanWrite(Notes, no_buf)
============================================================================
