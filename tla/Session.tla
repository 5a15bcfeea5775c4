------------------------------- MODULE Session -------------------------------
(***************************************************************************)
(* The session of the application: LoginModel (the signed-in user, kept in *)
(* NSUserDefaults under "Login_info"), RequestAPI (one shared session      *)
(* manager whose X-Access-Token header outlives the session it was set     *)
(* for) and AppDelegate (the root of the window).  Every completion block  *)
(* of AFNetworking runs on the main queue, so handling a reply is one      *)
(* step; replies arrive in any order.  The server and its tokens are       *)
(* external.                                                               *)
(***************************************************************************)
EXTENDS Naturals

CONSTANTS
    Token,     \* the session tokens the server hands out
    NoToken,   \* the empty string: nobody is signed in
    Slot       \* bound: the requests under way at one time

ASSUME TokenAssumption == NoToken \notin Token

VARIABLES
    token,     \* LoginModel.token of the running process
    defaults,  \* "Login_info" as NSUserDefaults answers it
    disk,      \* "Login_info" as a relaunch would find it
    header,    \* X-Access-Token of the shared request serializer
    root,      \* rootViewController: "login" or "tabs"
    issued,    \* tokens the server has handed out
    valid,     \* tokens the server still accepts
    req        \* the requests under way

vars == <<token, defaults, disk, header, root, issued, valid, req>>

MaybeToken == Token \cup {NoToken}

(* A request: the multipart uploads (IdCard.do, subComplaint) have success *)
(* blocks of their own; "grant" is the token the server answers a login    *)
(* with; "shown" says the login screen that sent it is still the root.     *)
NoRequest == [kind |-> "none", token |-> NoToken, grant |-> NoToken, shown |-> FALSE]
Request == [kind : {"none", "api", "upload", "login"}, token : MaybeToken,
            grant : MaybeToken, shown : BOOLEAN]

TypeOK ==
    /\ {token, defaults, disk, header} \subseteq MaybeToken
    /\ root \in {"login", "tabs"}
    /\ valid \subseteq issued /\ issued \subseteq Token
    /\ req \in [Slot -> Request]

-----------------------------------------------------------------------------
isLogin == token # NoToken

RootFor(t) == IF t = NoToken THEN "login" ELSE "tabs"

(* LoginModel.init reads the defaults, didFinishLaunching builds the       *)
(* window.  The user may have signed in during an earlier run.             *)
Init ==
    /\ disk \in MaybeToken
    /\ token = disk
    /\ defaults = disk
    /\ header = NoToken
    /\ root = RootFor(disk)
    /\ issued = Token \cap {disk}
    /\ valid \in SUBSET issued
    /\ req = [s \in Slot |-> NoRequest]

(* Mutated form of setLogonData: without the synchronize of                *)
(* DEF_PERSISTENT_SET_OBJECT.                                              *)
setLogonDataUnsynced(t) == token' = t /\ defaults' = t /\ UNCHANGED disk

setLogonData(t) == token' = t /\ defaults' = t /\ disk' = t

(* Mutated form of removeFromLocal: the fields are cleared, the defaults   *)
(* are left alone.                                                         *)
removeFromLocalFieldsOnly == token' = NoToken /\ UNCHANGED <<defaults, disk>>

(* DEF_PERSISTENT_REMOVE_OBJECT does not synchronize.                      *)
removeFromLocal == token' = NoToken /\ defaults' = NoToken /\ UNCHANGED disk

(* The requests as they are once another screen is the root.               *)
Covered(q) == [s \in Slot |-> [q[s] EXCEPT !.shown = FALSE]]
Answered(q, s) == [q EXCEPT ![s] = NoRequest]

(* Mutated form of setHeader: the header is not set.                       *)
setHeaderForgotten == UNCHANGED header

(* What a screen does with requestSerializer before it sends: the header   *)
(* is set while somebody is signed in and never removed.                   *)
setHeader == header' = IF isLogin THEN token ELSE header

Sent(q, s, kind) ==
    [q EXCEPT ![s] = [kind |-> kind, token |-> header', grant |-> NoToken,
                      shown |-> kind = "login"]]

-----------------------------------------------------------------------------
(* A screen of the tab bar calls POST, GET or one of the two uploads.      *)
send(s, kind) ==
    /\ root = "tabs"
    /\ req[s] = NoRequest
    /\ setHeader
    /\ req' = Sent(req, s, kind)
    /\ UNCHANGED <<token, defaults, disk, root, issued, valid>>

(* The login button: useLoginInsert goes through the same POST (with the   *)
(* header of an earlier session, if there was one).  The server is taken   *)
(* not to look at the header of a login.                                   *)
loginButClick(s) ==
    /\ root = "login"
    /\ req[s] = NoRequest
    /\ setHeader
    /\ req' = Sent(req, s, "login")
    /\ UNCHANGED <<token, defaults, disk, root, issued, valid>>

(* The server creates a session for a login request.                       *)
ServerGrant(s, t) ==
    /\ req[s].kind = "login" /\ req[s].grant = NoToken
    /\ t \notin issued
    /\ issued' = issued \cup {t}
    /\ valid' = valid \cup {t}
    /\ req' = [req EXCEPT ![s].grant = t]
    /\ UNCHANGED <<token, defaults, disk, header, root>>

ServerExpire(t) ==
    /\ t \in valid
    /\ valid' = valid \ {t}
    /\ UNCHANGED <<token, defaults, disk, header, root, issued, req>>

-----------------------------------------------------------------------------
(* A request is answered without code 995, or its failure block runs: the  *)
(* session layer changes nothing, whichever screen is up by then.  A       *)
(* screen's completion may send its next request from there, also a screen *)
(* that a logout has taken down (a block retains it).                      *)
replyOther(s) ==
    /\ req[s].kind \in {"api", "upload", "login"}
    /\ \/ req' = Answered(req, s) /\ UNCHANGED header
       \/ /\ req[s].kind # "login"
          /\ setHeader
          /\ req' = Sent(req, s, "api")
    /\ UNCHANGED <<token, defaults, disk, root, issued, valid>>

(* Mutated form of reply995: a logout without removeFromLocal.             *)
reply995LogoutOnly(s) ==
    /\ req[s].kind = "api"
    /\ req[s].token \notin valid
    /\ root' = "login"
    /\ req' = Covered(Answered(req, s))
    /\ UNCHANGED <<token, defaults, disk, header, issued, valid>>

(* Mutated form of reply995: the AppDelegate's logout is forgotten.        *)
reply995Silent(s) ==
    /\ req[s].kind = "api"
    /\ req[s].token \notin valid
    /\ removeFromLocal
    /\ req' = Answered(req, s)
    /\ UNCHANGED <<header, root, issued, valid>>

(* Mutated form of reply995: any failed request ends the session.          *)
reply995OnFailure(s) ==
    /\ req[s].kind = "api"
    /\ removeFromLocal
    /\ root' = "login"
    /\ req' = Covered(Answered(req, s))
    /\ UNCHANGED <<header, issued, valid>>

(* Code 995 in the success block of POST or GET: removeFromLocal, logout.  *)
(* The block does not look which session the request belonged to.          *)
reply995(s) ==
    /\ req[s].kind = "api"
    /\ req[s].token \notin valid
    /\ removeFromLocal
    /\ root' = "login"
    /\ req' = Covered(Answered(req, s))
    /\ UNCHANGED <<header, issued, valid>>

(* Code 995 in the success block of an upload: the call of logout is       *)
(* commented out, the tab bar stays up.                                    *)
upload995(s) ==
    /\ req[s].kind = "upload"
    /\ req[s].token \notin valid
    /\ removeFromLocal
    /\ req' = Answered(req, s)
    /\ UNCHANGED <<header, root, issued, valid>>

(* The login request succeeded.  The completion holds its screen weakly:   *)
(* a screen no longer shown may be gone (unless a countdown retains it),   *)
(* and then setLogonData goes to nil while initCustomWindow still runs.    *)
loginSuccess(s) ==
    /\ req[s].kind = "login" /\ req[s].grant # NoToken
    /\ \/ setLogonData(req[s].grant)
       \/ ~req[s].shown /\ UNCHANGED <<token, defaults, disk>>
    /\ root' = RootFor(token')
    /\ req' = Covered(Answered(req, s))
    /\ UNCHANGED <<header, issued, valid>>

-----------------------------------------------------------------------------
(* The defaults reach the disk some time after removeObjectForKey.         *)
DefaultsFlush ==
    /\ disk # defaults
    /\ disk' = defaults
    /\ UNCHANGED <<token, defaults, header, root, issued, valid, req>>

(* The process ends at any moment and is started again.                    *)
Relaunch ==
    /\ token' = disk
    /\ defaults' = disk
    /\ header' = NoToken
    /\ root' = RootFor(disk)
    /\ req' = [s \in Slot |-> NoRequest]
    /\ UNCHANGED <<disk, issued, valid>>

Next ==
    \/ \E s \in Slot :
          \/ \E kind \in {"api", "upload"} : send(s, kind)
          \/ loginButClick(s)
          \/ \E t \in Token : ServerGrant(s, t)
          \/ replyOther(s)
          \/ reply995(s)
          \/ upload995(s)
          \/ loginSuccess(s)
    \/ \E t \in Token : ServerExpire(t)
    \/ DefaultsFlush
    \/ Relaunch

Spec == Init /\ [][Next]_vars

-----------------------------------------------------------------------------
(* The login screen is never shown over a signed-in session: whatever the  *)
(* order of late login answers, 995 answers and relaunches, the next       *)
(* launch or sign-in does not skip the screen the user sees.               *)
LoginScreenMeansSignedOut == root = "login" => token = NoToken

(* The defaults never disagree with LoginModel, and the disk lags only     *)
(* behind a removal: setLogonData writes through, removeFromLocal does     *)
(* not.                                                                    *)
DiskLagsOnlyRemoval ==
    /\ defaults = token
    /\ disk # defaults => defaults = NoToken

(* A session the server still accepts is dropped only by the answer to a   *)
(* request of another, dead session - never by a relaunch, a timeout, or   *)
(* an answer of its own.  (It can be dropped that way: the 995 branches do *)
(* not compare the token of the request with the one signed in.)           *)
LiveSessionDroppedOnlyByStaleAnswer ==
    [][(token \in valid /\ token' # token) =>
          \/ token' \in Token
          \/ \E s \in Slot : /\ req[s].kind \in {"api", "upload"}
                             /\ req'[s].kind = "none"
                             /\ req[s].token \notin valid]_vars

(* Only an upload leaves the tab bar up over a signed-out session, and the *)
(* serializer then still carries a token: the next request of a tab screen *)
(* is judged by the server, whose 995 brings the login screen.             *)
SignedOutTabsKeepAToken ==
    (root = "tabs" /\ token = NoToken) => header # NoToken

SignedOutTabsOnlyByUpload ==
    [][(token # NoToken /\ token' = NoToken /\ root' = "tabs") =>
          \E s \in Slot : req[s].kind = "upload" /\ req'[s].kind = "none"]_vars

(* The session layer implements the life of a sign-in, for the mapping of  *)
(* LoginModel, the disk and the window.                                    *)
Life == INSTANCE SignInLife WITH who <- token, kept <- disk, window <- root
ImplementsLife == Life!Spec
=============================================================================
