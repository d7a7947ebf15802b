---------------------------- MODULE ContentServer ----------------------------
(***************************************************************************)
(* The content server (server/content_server.rs): one directory of files   *)
(* that everybody shares and one for each peer.  It keeps nothing in       *)
(* memory, so that a restart changes nothing.  A directory comes into      *)
(* being when it is listed; a write does not make one.  A file name is any *)
(* text without "..": what it leads to is for PathBuf::join and the disk   *)
(* to say, and need not be a file of the directory that is meant.  The     *)
(* disk fails only where a name leads nowhere or out of the directories.   *)
(***************************************************************************)
CONSTANTS
  Peer,      \* ids a request may come from
  Public,    \* the name of the shared directory
  FileName,
  Invalid,   \* file names with ".." in them
  Absolute,  \* file names that are absolute paths
  File,      \* the files there may be on the disk
  Place,     \* the file that each path leads to: a file has several paths
  Parent,    \* by file: the directory that it is in
  Elsewhere, \* or a directory that is none of the server's
  Nowhere,   \* or none, ever: a subdirectory that nobody makes, or a name,
             \* as the empty one, that leads to a directory
  Data,
  None       \* no file

Directory == Peer \cup {Public}

\* PathBuf::join: an absolute path replaces the directory.
Join(d, name) == IF name \in Absolute THEN name ELSE <<d, name>>

Path == {Join(d, name) : d \in Directory, name \in FileName}

ASSUME ContentAssumption ==
  /\ Public \notin Peer /\ None \notin Data
  /\ Invalid \subseteq FileName /\ Absolute \subseteq FileName
  /\ Elsewhere \notin Directory /\ Nowhere \notin Directory
  /\ Elsewhere # Nowhere
  /\ Place \in [Path -> File]
  /\ Parent \in [File -> Directory \cup {Elsewhere, Nowhere}]

VARIABLES
  directories,  \* those that exist
  files         \* the content of each file

contentVars == <<directories, files>>

\* Requests and responses, as far as they concern files.
FileRequest == [kind : {"list"}, private : BOOLEAN]
                 \cup [kind : {"get"}, private : BOOLEAN, name : FileName]
                 \cup [kind : {"write"}, private : BOOLEAN, name : FileName,
                       data : Data]

Listing(some) == [kind |-> "Files", files |-> some]
Content(data) == [kind |-> "File", data |-> data]
Success == [kind |-> "Success"]
Error == [kind |-> "Error"]
ServerType == [kind |-> "ServerType"]
NotImplemented == [kind |-> "NotImplemented"]

Response == {Listing(some) : some \in SUBSET File}
              \cup {Content(data) : data \in Data}
              \cup {Success, Error, ServerType, NotImplemented}

\* Mutant: private files are kept with the others.
DirectoryOfEverybody(peer, request) == Public

\* get_public_dir, get_private_dir.
DirectoryOf(peer, request) == IF request.private THEN peer ELSE Public

FilesIn(d) == {f \in File : Parent[f] = d /\ files[f] # None}

\* Mutant: a directory that is listed is made anew.
KeptIfListedEmptying(d) ==
  [f \in File |-> IF Parent[f] = d THEN None ELSE files[f]]

KeptIfListed(d) == files

\* list_files: create_dir_all for a directory that cannot be read.
ListFiles(d, answer) ==
  /\ answer = Listing(FilesIn(d))
  /\ directories' = directories \cup {d}
  /\ files' = KeptIfListed(d)

\* get_file, after the check of the name in get_public_file, get_private_file.
GetFile(d, name, answer) ==
  /\ answer = IF name \in Invalid \/ files[Place[Join(d, name)]] = None THEN Error
              ELSE Content(files[Place[Join(d, name)]])
  /\ UNCHANGED contentVars

\* fs::write: without its directory there is no file, and outside of those of
\* the server it may be forbidden.
WrittenTo(f, data) ==
  LET written == [files EXCEPT ![f] = data]
  IN  IF Parent[f] \in directories THEN {written}
      ELSE IF Parent[f] = Elsewhere THEN {files, written} ELSE {files}

\* write_public_file, write_private_file: Success is the answer whether
\* fs::write in write_file succeeded or not.
WriteFile(d, name, data, answer) ==
  /\ \/ name \in Invalid /\ answer = Error /\ UNCHANGED files
     \/ /\ name \notin Invalid /\ answer = Success
        /\ files' \in WrittenTo(Place[Join(d, name)], data)
  /\ UNCHANGED directories

\* handle_message, for a request; chat requests are not implemented.
HandleRequest(peer, request, answer) ==
  LET d == DirectoryOf(peer, request)
  IN  \/ request.kind = "list" /\ ListFiles(d, answer)
      \/ request.kind = "get" /\ GetFile(d, request.name, answer)
      \/ /\ request.kind = "write"
         /\ WriteFile(d, request.name, request.data, answer)
      \/ /\ request.kind \in {"type", "chat"}
         /\ answer = IF request.kind = "type" THEN ServerType ELSE NotImplemented
         /\ UNCHANGED contentVars

ContentInit ==
  /\ directories = {}
  /\ files \in [File -> Data \cup {None}]
  /\ \A f \in File : Parent[f] # Elsewhere => files[f] = None
=============================================================================
