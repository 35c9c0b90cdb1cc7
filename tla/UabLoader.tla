------------------------------ MODULE UabLoader ------------------------------
(***************************************************************************)
(* A self-contained application bundle, a .uab file, that is run, mounted  *)
(* or extracted (apps/uab/src).  Its header mounts the bundle inside the   *)
(* file, serving the file system itself, and spawns the loader that is in  *)
(* it; the loader makes a directory for a container beside the mount and   *)
(* spawns ll-box, the OCI runtime.  Each of the two passes the signals it  *)
(* gets on to the child whose id it has stored, and cleans up when that    *)
(* has ended.  Signals arrive at any step, from a terminal at all three at *)
(* once.  Another run of the same bundle, and LINGLONG_UAB_DEBUG, are left *)
(* out.                                                                    *)
(***************************************************************************)
EXTENDS Naturals

CONSTANTS
    Entries,    \* the entries of the bundle
    MaxSignals  \* bound: signals sent

VARIABLES
    mode,    \* "run", "mount" or "extract"
    header,  \* what the header does
    loader,  \* what the loader does, "none" before it is there
    box,     \* the container: "none", "run" or "gone"
    knows,   \* who has stored the id of its child
    got,     \* who has noted a signal
    mounted, \* the bundle is mounted and served
    point,   \* the directory it is mounted on was made for it and is there
    dir,     \* the container's directory: "none", "part" or "made"
    copied,  \* entries extracted
    code,    \* how the header ended
    sent, slain  \* signals sent; who was ended by SIGKILL

vars  == <<mode, header, loader, box, knows, got, mounted, point, dir, copied, code, sent, slain>>
files == <<mounted, point, dir>>
sigs  == <<got, sent, slain>>

Ended == {"none", "gone"}

Init ==
    /\ mode \in {"run", "mount", "extract"}
    /\ header = "start" /\ loader = "none" /\ box = "none"
    /\ knows = {} /\ got = {}
    /\ mounted = FALSE /\ point = FALSE /\ dir = "none" /\ copied = {}
    /\ code = "none" /\ sent = 0 /\ slain = {}

-----------------------------------------------------------------------------
(* The header.                                                             *)

\* The handlers are installed before anything else.
HeaderReady ==
    /\ header = "start" /\ header' = "open"
    /\ UNCHANGED <<mode, loader, box, knows, files, copied, code, sigs>>

\* The file is opened and verified and its bundle mounted, on a directory made
\* for it unless a path is given; each may fail.  A directory that was made
\* stays when the mount fails.
Mount ==
    /\ header = "open"
    /\ \/ /\ header' = mode /\ mounted' = TRUE /\ point' = (mode # "mount")
          /\ UNCHANGED code
       \/ /\ header' = "gone" /\ code' = "failed"
          /\ point' \in {FALSE, mode # "mount"}
          /\ UNCHANGED mounted
    /\ UNCHANGED <<mode, loader, box, knows, dir, copied, sigs>>

\* --mount: the header sleeps until a signal has been noted.
Woken ==
    /\ header = "mount" /\ "header" \in got
    /\ header' = "drop" /\ code' = "signal"
    /\ UNCHANGED <<mode, loader, box, knows, files, copied, sigs>>

\* copy_tree: an entry that is there already is an error.
Extract ==
    /\ header = "extract"
    /\ \/ /\ \E e \in Entries \ copied : copied' = copied \cup {e}
          /\ UNCHANGED <<header, code>>
       \/ header' = "drop" /\ code' = "failed" /\ UNCHANGED copied
       \/ copied = Entries /\ header' = "drop" /\ code' = "done" /\ UNCHANGED copied
    /\ UNCHANGED <<mode, loader, box, knows, files, sigs>>

\* run_loader, unless the bundle has no application or no loader.
SpawnLoader ==
    /\ header = "run"
    /\ \/ header' = "store" /\ loader' = "start" /\ UNCHANGED code
       \/ header' = "drop" /\ code' \in {"failed", "done"} /\ UNCHANGED loader
    /\ UNCHANGED <<mode, box, knows, files, copied, sigs>>

StoreLoader ==
    /\ header = "store" /\ header' = "wait" /\ knows' = knows \cup {"header"}
    /\ UNCHANGED <<mode, loader, box, files, copied, code, sigs>>

\* Mutant: a signal ends the wait.
LoaderEndsOrSignal ==
    /\ header = "wait" /\ (loader = "gone" \/ "header" \in got)
    /\ header' = "drop" /\ knows' = knows \ {"header"} /\ code' = "done"
    /\ UNCHANGED <<mode, loader, box, files, copied, sigs>>

\* The wait goes on over signals.
LoaderEnds ==
    /\ header = "wait" /\ loader = "gone"
    /\ header' = "drop" /\ knows' = knows \ {"header"} /\ code' = "done"
    /\ UNCHANGED <<mode, loader, box, files, copied, sigs>>

\* Drop of MountedBundle: unmounted, and the directory removed if it was made.
Unmount ==
    /\ header = "drop" /\ mounted
    /\ mounted' = FALSE
    /\ UNCHANGED <<mode, header, loader, box, knows, point, dir, copied, code, sigs>>

HeaderExits ==
    /\ header = "drop" /\ ~mounted
    /\ header' = "gone" /\ point' = FALSE
    /\ UNCHANGED <<mode, loader, box, knows, mounted, dir, copied, code, sigs>>

-----------------------------------------------------------------------------
(* The loader.                                                             *)

LoaderReady ==
    /\ loader = "start" /\ loader' = "find"
    /\ UNCHANGED <<mode, header, box, knows, files, copied, code, sigs>>

\* The application is found in the layers, and the directory made with the root
\* in it: the one may be possible without the other, and then stays.
MakeDir ==
    /\ loader = "find"
    /\ \/ loader' = "write" /\ dir' = "made"
       \/ loader' = "gone" /\ dir' \in {dir, "part"}
    /\ UNCHANGED <<mode, header, box, knows, mounted, point, copied, code, sigs>>

\* The files of the container are written and ll-box is spawned, whether or
\* not a signal has been noted by then.
SpawnBox ==
    /\ loader = "write"
    /\ \/ loader' = "store" /\ box' = "run"
       \/ loader' = "drop" /\ UNCHANGED box
    /\ UNCHANGED <<mode, header, knows, files, copied, code, sigs>>

StoreBox ==
    /\ loader = "store" /\ loader' = "wait" /\ knows' = knows \cup {"loader"}
    /\ UNCHANGED <<mode, header, box, files, copied, code, sigs>>

BoxEnds ==
    /\ box = "run" /\ box' = "gone"
    /\ UNCHANGED <<mode, header, loader, knows, files, copied, code, sigs>>

WaitBox ==
    /\ loader = "wait" /\ box = "gone"
    /\ loader' = "drop" /\ knows' = knows \ {"loader"}
    /\ UNCHANGED <<mode, header, box, files, copied, code, sigs>>

\* Drop of ContainerBundle.
LoaderExits ==
    /\ loader = "drop"
    /\ loader' = "gone" /\ dir' = "none"
    /\ UNCHANGED <<mode, header, box, knows, mounted, point, copied, code, sigs>>

-----------------------------------------------------------------------------
(* Signals.                                                                *)

\* Whom a signal to someone of T reaches: it is passed on to a child whose id
\* is stored, as long as that is there.
Reached(T) == LET L == IF "header" \in T /\ "header" \in knows THEN {"loader"} ELSE {}
                  B == IF "loader" \in T \cup L /\ "loader" \in knows THEN {"box"} ELSE {}
              IN  T \cup L \cup B

\* Without its handlers a process is ended by it, with them it takes note.
\* What runs in the container may go on.
Signal(T) ==
    /\ sent < MaxSignals /\ sent' = sent + 1
    /\ LET R == Reached(T) IN
         /\ IF "header" \in R /\ header = "start"
            THEN header' = "gone" /\ code' = "signal" ELSE UNCHANGED <<header, code>>
         /\ IF "loader" \in R /\ loader = "start" THEN loader' = "gone" ELSE UNCHANGED loader
         /\ got' = got \cup (IF header \in Ended \cup {"start"} THEN {} ELSE R \cap {"header"})
                       \cup (IF loader \in Ended \cup {"start"} THEN {} ELSE R \cap {"loader"})
         /\ IF "box" \in R /\ box = "run" THEN box' \in {"run", "gone"} ELSE UNCHANGED box
    /\ UNCHANGED <<mode, knows, files, copied, slain>>

\* The file system is not served without the header.
SlayHeader ==
    /\ header \notin Ended /\ header' = "gone"
    /\ mounted' = FALSE /\ code' = "signal" /\ slain' = slain \cup {"header"}
    /\ UNCHANGED <<mode, loader, box, knows, point, dir, copied, got, sent>>

SlayLoader ==
    /\ loader \notin Ended /\ loader' = "gone"
    /\ slain' = slain \cup {"loader"}
    /\ UNCHANGED <<mode, header, box, knows, files, copied, code, got, sent>>

Header == HeaderReady \/ Mount \/ Woken \/ Extract \/ SpawnLoader \/ StoreLoader
            \/ LoaderEnds \/ Unmount \/ HeaderExits
Loader == LoaderReady \/ MakeDir \/ SpawnBox \/ StoreBox \/ WaitBox \/ LoaderExits

Next == \/ Header \/ Loader \/ BoxEnds
        \/ \E T \in {{"header"}, {"loader"}, {"header", "loader", "box"}} : Signal(T)
        \/ SlayHeader \/ SlayLoader

-----------------------------------------------------------------------------
(* Properties.                                                             *)

\* The files an application runs on are there as long as it runs, and the
\* bundle as long as anything of it does.
Held == /\ box = "run" => mounted /\ dir = "made"
        /\ loader \notin Ended \/ header = "extract" => mounted

\* Once the header is gone, so is all that it started and made; the directory
\* of a mount that failed stays, and one that could be made only in part.
Swept == header = "gone" => /\ loader \in Ended /\ box \in Ended /\ ~mounted /\ dir # "made"
                            /\ point => code = "failed"

\* Unless the header or the loader is ended by SIGKILL, whatever other signals
\* reach whom, and whether they are passed on or come too early for that.
Orderly == slain = {} => Held /\ Swept
=============================================================================
