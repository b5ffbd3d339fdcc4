------------------------------ MODULE NetChange ------------------------------
(***************************************************************************)
(* Changing the network settings of the gateway, over four programs:       *)
(*   - the web interface writes the settings NET_NEW_* row by row, sends   *)
(*     a change command over the lbus and closes the session;              *)
(*   - the gateway (changeNetType and handleLoginCmd of lbus.c) applies    *)
(*     the change on the first visit of the command and, on the second,    *)
(*     keeps it or takes it back, depending on whether a login was handled *)
(*     in between;                                                         *)
(*   - ipchanger rewrites /etc/network/interfaces after copying it to      *)
(*     interfaces.bak, writes resolv.conf and restarts eth0; with dhcp,    *)
(*     dhclient (external) then writes resolv.conf from its lease;         *)
(*   - the machine may lose power between any two steps.                   *)
(*                                                                         *)
(* Lbus.tla has the list of commands and its cursor.  Here any command in  *)
(* the list may be visited next, since requests move the cursor, and only  *)
(* net and login commands are in it.  The six settings are three: the      *)
(* type, the address (with mask and gateway), and the name servers.  The   *)
(* reads of all of them are one step, the writes are a step each.  A       *)
(* message that is lost is a message that was not sent.                    *)
(***************************************************************************)
EXTENDS Naturals, Sequences, Functions

CONSTANTS Session,          \* sessions of the web interface
          Address,          \* static configurations a user may enter
          MaxSent,          \* bound: commands sent
          MaxNet,           \* bound: how many of them change the network
          MaxReboot,        \* bound: power failures
          Faulty            \* TRUE: SQL, cp, ifdown and ifup may fail

ASSUME NetChangeAssumption == /\ MaxSent \in Nat /\ MaxNet \in Nat
                              /\ MaxReboot \in Nat
                              /\ Faulty \in BOOLEAN
                              /\ {"dhcp", "none", "down", "lease"} \cap Address = {}

Config == Address \union {"dhcp"}

\* The rows of one group of settings, as the web interface writes them.
Value == Address \union {"none"}
Rows == [type : {"DHCP", "dhcp", "static"}, adr : Value, dns : Value]

\* Mutated: dhcp leaves the address fields filled in.
AskedUncleared(c) == [type |-> IF c = "dhcp" THEN "dhcp" ELSE "static",
                      adr |-> c, dns |-> c]

Asked(c) == IF c = "dhcp"
            THEN [type |-> "dhcp", adr |-> "none", dns |-> "none"]
            ELSE [type |-> "static", adr |-> c, dns |-> c]

\* What /etc/network/interfaces can say of eth0.
File == Config \union {"none"}

Message == [kind : {"net", "login"}, via : File \union {"down"}]
Command == [kind : {"net", "login"}, via : File \union {"down"},
            next : {"none", "later", "due"}]

\* Where changeNetType is: applying, resetting or keeping a change.
Applying == {"dns", "backup", "write", "ifdown", "ifup"}
Resetting == {"restore", "rifdown", "rifup"}
Keeping == {"keep_type", "keep_adr", "keep_dns"}

VARIABLES
  new, std,       \* the settings NET_NEW_* and NET_*
  interfaces,     \* /etc/network/interfaces
  backup,         \* /etc/network/interfaces.bak
  resolv,         \* /etc/resolv.conf
  eth,            \* the settings eth0 is up with, or "down"
  sent,           \* requests on their way to the gateway
  queue,          \* the lbus commands, in the order of the list
  netTypeChanged,
  pc,             \* where the main thread is inside changeNetType
  cmd,            \* the position of the command it handles
  args,           \* the settings it has read
  walk,           \* the position handleLoginCmd visits next, 0 outside of it
  web,            \* each session: logged out, logged in, saving settings
  want,           \* the settings it is saving
  confirmed,      \* history: the interfaces file at the last handled login
  nsent, nnet, nreboot

net == <<interfaces, backup, resolv, eth>>
bus == <<sent, queue>>
site == <<new, web, want>>
main == <<netTypeChanged, pc, cmd, args, walk>>
count == <<nsent, nnet, nreboot>>
vars == <<new, std, interfaces, backup, resolv, eth, sent, queue, netTypeChanged,
          pc, cmd, args, walk, web, want, confirmed, nsent, nnet, nreboot>>

TypeOK == /\ new \in Rows /\ std \in Rows /\ args \in Rows
          /\ {interfaces, backup, confirmed} \subseteq File
          /\ resolv \in Value \union {"lease"}
          /\ eth \in File \union {"down"}
          /\ sent \in Seq(Message)
          /\ queue \in Seq(Command)
          /\ netTypeChanged \in {0, 1}
          /\ pc \in {"idle"} \union Applying \union Resetting \union Keeping
          /\ cmd \in Nat /\ walk \in Nat
          /\ web \in [Session -> {"out", "in", "type", "adr", "dns", "send"}]
          /\ want \in [Session -> Config]
          /\ nsent \in 0..MaxSent /\ nnet \in 0..MaxNet /\ nreboot \in 0..MaxReboot

\* The rows that lielas_createLDBTbls() inserts; eth0 is delivered with dhcp.
Delivered == [type |-> "DHCP", adr |-> "none", dns |-> "none"]

Init == /\ new = Delivered /\ std = Delivered /\ args = Delivered
        /\ interfaces = "dhcp" /\ backup = "dhcp" /\ eth = "dhcp"
        /\ resolv = "lease"
        /\ sent = <<>> /\ queue = <<>>
        /\ netTypeChanged = 1
        /\ pc = "idle" /\ cmd = 0 /\ walk = 0
        /\ web = [s \in Session |-> "out"]
        /\ want = [s \in Session |-> "dhcp"]
        /\ confirmed = "dhcp"
        /\ nsent = 0 /\ nnet = 0 /\ nreboot = 0

-----------------------------------------------------------------------------
(* The web interface *)

Send(k) == /\ nsent < MaxSent
           /\ sent' = Append(sent, [kind |-> k, via |-> eth])
           /\ nsent' = nsent + 1

\* Authenticate: the browser has reached the site through eth0.
LogIn(s) == /\ web[s] = "out"
            /\ eth # "down"
            /\ Send("login")
            /\ web' = [web EXCEPT ![s] = "in"]
            /\ UNCHANGED <<new, std, net, queue, main, want, confirmed, nnet, nreboot>>

\* SaveIPBttnClicked, confirmed by the user.
Save(s, c) == /\ web[s] = "in"
              /\ nnet < MaxNet
              /\ web' = [web EXCEPT ![s] = "type"]
              /\ want' = [want EXCEPT ![s] = c]
              /\ nnet' = nnet + 1
              /\ UNCHANGED <<new, std, net, bus, main, confirmed, nsent, nreboot>>

\* setNetType, setNetAddress ...: an exception is reported and passed over.
WriteRow(s) ==
  /\ web[s] \in {"type", "adr", "dns"}
  /\ \/ new' = [new EXCEPT ![web[s]] = Asked(want[s])[web[s]]]
     \/ Faulty /\ UNCHANGED new
  /\ web' = [web EXCEPT ![s] = CASE @ = "type" -> "adr"
                                 [] @ = "adr" -> "dns"
                                 [] @ = "dns" -> "send"]
  /\ UNCHANGED <<std, net, bus, main, want, confirmed, count>>

SendChange(s) == /\ web[s] = "send"
                 /\ Send("net")
                 /\ web' = [web EXCEPT ![s] = "out"]
                 /\ UNCHANGED <<new, std, net, queue, main, want, confirmed, nnet, nreboot>>

-----------------------------------------------------------------------------
(* The gateway *)

Unlocked == pc = "idle" /\ walk = 0

\* hnd_put_lbus waits for the mutex while the main thread handles a command.
Put == /\ Unlocked
       /\ sent # <<>>
       /\ queue' = Append(queue, [kind |-> Head(sent).kind, via |-> Head(sent).via,
                                  next |-> "none"])
       /\ sent' = Tail(sent)
       /\ UNCHANGED <<site, std, net, main, confirmed, count>>

SetCmdHandled(n) == queue' = SubSeq(queue, 1, n - 1) \o SubSeq(queue, n + 1, Len(queue))

\* lielas_getLDBSetting: without the database it leaves its buffer as it is, and
\* changeNetType does not ask on the first visit.  The stack may then hold what
\* an earlier call has read, or nothing that is a setting.
GetSettings == \/ args' = new
               \/ Faulty /\ args' \in {args, Delivered}

\* changeNetType, first visit: the new settings are read and the first
\* command line is started.  An unknown type ends the command.
ReadNew(n) ==
  /\ queue[n].next = "none"
  /\ GetSettings
  /\ cmd' = n
  /\ \/ /\ args'.type = "static"
        /\ pc' = "dns"
        /\ UNCHANGED <<queue, walk>>
     \/ /\ args'.type = "dhcp"
        /\ pc' = "backup"
        /\ UNCHANGED <<queue, walk>>
     \/ /\ args'.type \notin {"static", "dhcp"}
        /\ pc' = "idle"
        /\ SetCmdHandled(n)
        /\ UNCHANGED walk
  /\ UNCHANGED <<site, std, net, sent, netTypeChanged, confirmed, count>>

\* Mutated: the two outcomes are swapped.
DecideSwapped(n) ==
  /\ queue[n].next # "none"
  /\ SetCmdHandled(n)
  /\ pc' = IF netTypeChanged = 0 THEN "restore" ELSE "keep_type"
  /\ args' = IF netTypeChanged = 1 THEN args ELSE new
  /\ UNCHANGED <<site, std, net, sent, netTypeChanged, cmd, walk, confirmed, count>>

\* changeNetType, second visit: the command is handled first.  To be kept,
\* the new settings are read again; if that fails nothing is written, as when
\* the first row fails (KeepRow).
Decide(n) ==
  /\ queue[n].next # "none"
  /\ SetCmdHandled(n)
  /\ pc' = IF netTypeChanged = 1 THEN "restore" ELSE "keep_type"
  /\ args' = IF netTypeChanged = 1 THEN args ELSE new
  /\ UNCHANGED <<site, std, net, sent, netTypeChanged, cmd, walk, confirmed, count>>

\* lbus_handler comes to a net command that need not wait.
HandleNet(n) == /\ Unlocked
                /\ queue[n].kind = "net"
                /\ queue[n].next # "later"
                /\ ReadNew(n) \/ Decide(n)

\* The lap comes to the end of the list or to a command that has to wait.
HandlerIdle == /\ Unlocked
               /\ queue = <<>> \/ \E n \in DOMAIN queue : queue[n].next = "later"
               /\ UNCHANGED vars

\* Mutated: the login does not look for waiting changes.
HandleLoginOnly(n) == /\ Unlocked
                      /\ queue[n].kind = "login"
                      /\ SetCmdHandled(n)
                      /\ netTypeChanged' = 0
                      /\ confirmed' = interfaces
                      /\ UNCHANGED <<site, std, net, sent, pc, cmd, args, walk, count>>

\* handleLoginCmd: the login is handled, then all change commands are, from
\* the head of the list and whether they have to wait or not.
HandleLogin(n) == /\ Unlocked
                  /\ queue[n].kind = "login"
                  /\ SetCmdHandled(n)
                  /\ netTypeChanged' = 0
                  /\ confirmed' = interfaces
                  /\ walk' = 1
                  /\ UNCHANGED <<site, std, net, sent, pc, cmd, args, count>>

\* A login behind this one is passed.
WalkPasses == /\ pc = "idle"
              /\ walk \in DOMAIN queue
              /\ queue[walk].kind = "login"
              /\ walk' = walk + 1
              /\ UNCHANGED <<site, std, net, bus, netTypeChanged, pc, cmd, args, confirmed, count>>

\* A handled command leaves the list, so that the walk goes on at the same
\* position; ApplyDone moves it past a command that stays.
WalkHandles == /\ pc = "idle"
               /\ walk \in DOMAIN queue
               /\ queue[walk].kind = "net"
               /\ ReadNew(walk) \/ Decide(walk)

WalkEnds == /\ pc = "idle"
            /\ walk > Len(queue)
            /\ walk' = 0
            /\ UNCHANGED <<site, std, net, bus, netTypeChanged, pc, cmd, args, confirmed, count>>

-----------------------------------------------------------------------------
(* ipchanger, which changeNetType waits for *)

Goto(from, to) == /\ pc = from
                  /\ pc' = to
                  /\ UNCHANGED <<site, std, sent, netTypeChanged, cmd, args,
                                 confirmed, count>>

\* ipchanger set dns
SetDns == /\ Goto("dns", "backup")
          /\ resolv' = args.dns
          /\ UNCHANGED <<interfaces, backup, eth, queue, walk>>

\* Mutated: the file is saved after it has been written.
SaveBackupLate == /\ Goto("backup", "write")
                  /\ backup' = IF args.type = "dhcp" THEN "dhcp" ELSE args.adr
                  /\ UNCHANGED <<interfaces, resolv, eth, queue, walk>>

\* set_dhcp and set_static: save_backup, then the file is written.
SaveBackup == /\ Goto("backup", "write")
              /\ backup' = interfaces
              /\ UNCHANGED <<interfaces, resolv, eth, queue, walk>>

WriteInterfaces ==
  /\ Goto("write", "ifdown")
  /\ interfaces' = IF args.type = "dhcp" THEN "dhcp" ELSE args.adr
  /\ UNCHANGED <<backup, resolv, eth, queue, walk>>

RestoreBackup == /\ Goto("restore", "rifdown")
                 /\ interfaces' = backup
                 /\ UNCHANGED <<backup, resolv, eth, queue, walk>>

\* restart_net_interface
IfDown == /\ \/ Goto("ifdown", "ifup")
             \/ Goto("rifdown", "rifup")
          /\ eth' = "down"
          /\ UNCHANGED <<interfaces, backup, resolv, queue, walk>>

\* ifup eth0; for dhcp it starts dhclient.
IfUp == /\ eth' = interfaces
        /\ resolv' = IF interfaces = "dhcp" THEN "lease" ELSE resolv
        /\ UNCHANGED <<interfaces, backup>>

ResetDone == /\ Goto("rifup", "idle")
             /\ IfUp
             /\ UNCHANGED <<queue, walk>>

\* Mutated: netTypeChanged is not set.
ApplyDoneQuietly ==
  /\ pc = "ifup"
  /\ pc' = "idle"
  /\ IfUp
  /\ queue' = [queue EXCEPT ![cmd].next = "later"]
  /\ walk' = IF walk = 0 THEN 0 ELSE walk + 1
  /\ UNCHANGED <<site, std, sent, netTypeChanged, cmd, args, confirmed, count>>

\* The change is in force: changeNetType sets the time of the second visit.
ApplyDone ==
  /\ pc = "ifup"
  /\ pc' = "idle"
  /\ IfUp
  /\ queue' = [queue EXCEPT ![cmd].next = "later"]
  /\ netTypeChanged' = 1
  /\ walk' = IF walk = 0 THEN 0 ELSE walk + 1
  /\ UNCHANGED <<site, std, sent, cmd, args, confirmed, count>>

\* A step of ipchanger fails: the command is handled, what was done stays.
ApplyFails == /\ Faulty
              /\ \E at \in Applying : Goto(at, "idle")
              /\ SetCmdHandled(cmd)
              /\ UNCHANGED <<net, walk>>

ResetFails == /\ Faulty
              /\ \E at \in Resetting : Goto(at, "idle")
              /\ UNCHANGED <<net, queue, walk>>

\* The new settings become the standard ones, row by row.
KeepRow(f, from, to) ==
  /\ pc = from
  /\ \/ pc' = to /\ std' = [std EXCEPT ![f] = args[f]]
     \/ Faulty /\ pc' = "idle" /\ UNCHANGED std
  /\ UNCHANGED <<site, net, bus, netTypeChanged, cmd, args, walk, confirmed, count>>

\* Mutated: ends after the first row.
KeepFirst == KeepRow("type", "keep_type", "idle")

Keep == \/ KeepRow("type", "keep_type", "keep_adr")
        \/ KeepRow("adr", "keep_adr", "keep_dns")
        \/ KeepRow("dns", "keep_dns", "idle")

-----------------------------------------------------------------------------
\* LBUS_NET_RELOGIN_TIME has passed.
Tick(n) == /\ Unlocked
           /\ queue[n].next = "later"
           /\ queue' = [queue EXCEPT ![n].next = "due"]
           /\ UNCHANGED <<site, std, net, sent, main, confirmed, count>>

\* The power fails and comes back: eth0 is brought up from the file, the
\* gateway loads the commands without their times and in the order the database
\* returns them, the sessions are gone.
Reboot == /\ nreboot < MaxReboot
          /\ nreboot' = nreboot + 1
          /\ IfUp
          /\ sent' = <<>>
          /\ \E order \in Bijection(DOMAIN queue, DOMAIN queue) :
               queue' = [n \in DOMAIN queue |-> [queue[order[n]] EXCEPT !.next = "none"]]
          /\ netTypeChanged' = 1
          /\ pc' = "idle" /\ cmd' = 0 /\ walk' = 0
          /\ web' = [s \in Session |-> "out"]
          /\ UNCHANGED <<new, std, args, want, confirmed, nsent, nnet>>

Web == \E s \in Session : \/ LogIn(s)
                          \/ \E c \in Config : Save(s, c)
                          \/ WriteRow(s)
                          \/ SendChange(s)

Gateway == \/ \E n \in DOMAIN queue : HandleNet(n) \/ HandleLogin(n)
           \/ WalkPasses \/ WalkHandles \/ WalkEnds
           \/ SetDns \/ SaveBackup \/ WriteInterfaces \/ RestoreBackup
           \/ IfDown \/ ResetDone \/ ApplyDone \/ ApplyFails \/ ResetFails
           \/ Keep

Next == \/ Web
        \/ Put
        \/ Gateway
        \/ HandlerIdle
        \/ \E n \in DOMAIN queue : Tick(n)
        \/ Reboot

Spec == Init /\ [][Next]_vars

\* The main loop keeps visiting commands, ipchanger terminates, time passes.
\* Nobody has to log in.
FairSpec == /\ Spec
            /\ WF_vars(Gateway)
            /\ WF_vars(\E n \in DOMAIN queue : Tick(n))

-----------------------------------------------------------------------------
(* Properties *)

\* Whenever changeNetType is not at work, a cleared netTypeChanged means that
\* the interfaces file is the one a handled login confirmed, also when one
\* login walk applies one change and keeps another: an unconfirmed change is
\* never taken for a confirmed one and made the standard.
FlagMeansConfirmed == (pc \in {"idle"} \union Keeping /\ netTypeChanged = 0)
                      => interfaces = confirmed

\* Outside of a login walk a cleared netTypeChanged means that no change is
\* waiting for its second visit, whatever fails and whenever the power does:
\* settings become the standard only inside the walk of the login that
\* confirmed them, never on a lap of the main loop long after it.
KeptOnlyAtLogin == (Unlocked /\ netTypeChanged = 0)
                   => \A n \in DOMAIN queue : queue[n].next = "none"

\* A reset leads back to the settings that were last confirmed.
ResetGoesBack == [][pc = "restore" /\ pc' = "rifdown" => interfaces' = confirmed]_vars

\* With a single change and no power failure it does.
ResetOfOneGoesBack ==
  [][pc = "restore" /\ pc' = "rifdown" /\ nnet <= 1 /\ nreboot = 0
     => interfaces' = confirmed]_vars

\* The settings NET_*, which the web interface shows, are those in force whenever no
\* change waits: they are read when the change is applied and once more when it is
\* kept, and written row by row.  A second change, or a power failure, may come in
\* between.
StandardInForce ==
  (/\ pc = "idle" /\ \A n \in DOMAIN queue : queue[n].next = "none"
   /\ nnet <= 1 /\ nreboot = 0 /\ ~Faulty)
  => interfaces = (IF std.type = "static" THEN std.adr ELSE "dhcp")

\* A reset that leads back to the static settings a user has entered, which were
\* confirmed and kept as NET_*, leads back to their name servers, too.  Settings with
\* dhcp are left out, as dhclient writes the name servers then.
ResetRestoresDns ==
  (/\ pc = "rifup"
   /\ interfaces \in Address /\ interfaces = confirmed /\ std = Asked(interfaces)
   /\ resolv # "lease")
  => resolv = std.dns

\* A login that comes after a change in the list and ends its wait was made
\* under the new settings.  A walk starts in the step that handles a login.
Handled(n) == queue' = SubSeq(queue, 1, n - 1) \o SubSeq(queue, n + 1, Len(queue))
ReloginIsNew ==
  [][\A n \in DOMAIN queue :
       /\ walk = 0 /\ walk' = 1
       /\ queue[n].kind = "login" /\ Handled(n)
       /\ \E m \in 1..(n - 1) : queue[m].next # "none"
       => queue[n].via = eth]_vars

\* A user who enters settings under which eth0 cannot be reached is not shut out:
\* without a login the gateway comes back under the confirmed settings, unless
\* they are changed a second time or the power fails meanwhile.
ComesBack == eth # confirmed ~> (eth = confirmed \/ nnet > 1 \/ nreboot > 0)
=============================================================================
