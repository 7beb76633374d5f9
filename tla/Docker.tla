------------------------------- MODULE Docker -------------------------------
(***************************************************************************)
(* The Docker daemon as lambda-gateway/src/docker/docker_manager.rs uses    *)
(* it.  Containers are created with auto_remove and one published host      *)
(* port; the daemon is external, so only what the calls do to a container   *)
(* is modelled.  Replies, and their loss, belong to the callers.            *)
(***************************************************************************)
CONSTANTS Containers,   \* container ids the daemon may hand out
          Ports, NoPort

VARIABLES container,    \* the daemon's state of each container
          port_of       \* the host port a container publishes

ContainerStates == {"absent", "created", "running", "exited"}

TypeOK ==
    /\ container \in [Containers -> ContainerStates]
    /\ port_of \in [Containers -> Ports \union {NoPort}]

Init ==
    /\ container = [c \in Containers |-> "absent"]
    /\ port_of = [c \in Containers |-> NoPort]

Become(c, s) == container' = [container EXCEPT ![c] = s]

Vanish(c) == Become(c, "absent") /\ port_of' = [port_of EXCEPT ![c] = NoPort]

(* A running container has its host port to itself. *)
Published(p) == \E c \in Containers : container[c] = "running" /\ port_of[c] = p

(* create_container, the Docker API's create call. *)
Create(c, p) ==
    /\ container[c] = "absent"
    /\ Become(c, "created")
    /\ port_of' = [port_of EXCEPT ![c] = p]

(* create_container, the start call: binds the port. *)
Start(c) ==
    /\ container[c] = "created"
    /\ ~Published(port_of[c])
    /\ Become(c, "running")
    /\ UNCHANGED port_of

(* A start the daemon refuses; auto_remove takes the container away. *)
Refuse(c) == container[c] = "created" /\ Vanish(c)

(* stop_container: 404 (absent) and not-running are Ok and change nothing. *)
Stop(c) ==
    /\ container' = [container EXCEPT ![c] = IF @ = "running" THEN "exited" ELSE @]
    /\ UNCHANGED port_of

(* The process inside the container ends by itself. *)
Crash(c) == container[c] = "running" /\ Become(c, "exited") /\ UNCHANGED port_of

(* auto_remove of an exited container. *)
AutoRemove(c) == container[c] = "exited" /\ Vanish(c)
=============================================================================
