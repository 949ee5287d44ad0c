----------------------------- MODULE MCDriveScan -----------------------------
(***************************************************************************)
(* A small drive for TLC: an archive; a hidden directory with a link; and  *)
(* a directory, excluded from scans, with a pipe and an archive in which   *)
(* another archive holds the only GNSS file.  The temporary files of the   *)
(* two outer archives have one inode.                                      *)
(***************************************************************************)
EXTENDS DriveScan

Plain(parent) == [parent |-> parent, type |-> "file", hidden |-> FALSE,
                  excluded |-> {}, suspect |-> FALSE, size |-> 1, gnss |-> FALSE,
                  archive |-> "no", inode |-> 0]

MCEntries == {"zip", "member", "attic", "link", "vault", "tar", "inner", "grave", "pipe"}

MCEntry == [e \in MCEntries |->
    CASE e = "zip" -> [Plain("drive") EXCEPT !.archive = "good", !.inode = 3]
      [] e = "member" -> [Plain("zip") EXCEPT !.inode = 4]
      [] e = "attic" -> [Plain("drive") EXCEPT !.type = "dir", !.hidden = TRUE]
      [] e = "link" -> [Plain("attic") EXCEPT !.type = "link", !.size = 0]
      [] e = "vault" -> [Plain("drive") EXCEPT !.type = "dir", !.excluded = {"scan"}]
      [] e = "tar" -> [Plain("vault") EXCEPT !.archive = "good", !.inode = 5]
      [] e = "inner" -> [Plain("tar") EXCEPT !.archive = "good", !.inode = 4]
      [] e = "grave" -> [Plain("inner") EXCEPT !.gnss = TRUE, !.inode = 6]
      [] e = "pipe" -> [Plain("vault") EXCEPT !.type = "other", !.size = 0]]
=============================================================================
