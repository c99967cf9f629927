------------------------------- MODULE MCRooms -------------------------------
(* What several players share, in one run: the room and its members, the     *)
(* turns of the shared Dungeon Master, the turn a guest sends, the room as   *)
(* its host keeps it, what a guest is shown of it, and how a guest gets a    *)
(* hero.  Each has its own view of the members' coming and going: `focus`    *)
(* says which one moves while the others stay as they began.                 *)
EXTENDS Rooms, RoomDmTurns, HostedRoom, GuestTurns, RoomFeed, HeroDrafts, TLC

CONSTANTS a, b, ta, tb, r1, r2
VARIABLE focus

Sends == ta :> a @@ tb :> b
OneTable == r1 :> a @@ r2 :> a

TogetherInit ==
    /\ focus \in {"room", "dm", "host", "guest", "feed", "drafts"}
    /\ Init /\ DmInit /\ HostInit /\ GuestInit /\ FeedInit /\ DraftsInit

everything == <<focus, vars, dmVars, hostVars, guestVars, feedVars, draftVars>>

Moves(service, step) == focus = service /\ step /\ UNCHANGED focus

TogetherNext ==
    \/ /\ Moves("room", Next)
       /\ UNCHANGED <<dmVars, hostVars, guestVars, feedVars, draftVars>>
    \/ /\ Moves("dm", DmNext)
       /\ UNCHANGED <<vars, hostVars, guestVars, feedVars, draftVars>>
    \/ /\ Moves("host", HostNext)
       /\ UNCHANGED <<vars, dmVars, guestVars, feedVars, draftVars>>
    \/ /\ Moves("guest", GuestNext)
       /\ UNCHANGED <<vars, dmVars, hostVars, feedVars, draftVars>>
    \/ /\ Moves("feed", FeedNext)
       /\ UNCHANGED <<vars, dmVars, hostVars, guestVars, draftVars>>
    \/ /\ Moves("drafts", DraftsNext)
       /\ UNCHANGED <<vars, dmVars, hostVars, guestVars, feedVars>>

Together == TogetherInit /\ [][TogetherNext]_everything

(* The room alone, and the shared Dungeon Master alone.                      *)
RoomAlone == focus = "room" /\ TogetherInit /\ [][TogetherNext]_everything
DmAlone == focus = "dm" /\ TogetherInit /\ [][TogetherNext]_everything

Alike == UNION {Permutations(S) : S \in {Joins, Invitations}}
=============================================================================
