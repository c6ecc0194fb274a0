--------------------------- MODULE MCLaunchSupervisor ---------------------------
(* A file system service, which blocks and ends only with QEMU, and the docker *)
(* proxy, which heeds the shutdown channel.                                    *)
EXTENDS LaunchSupervisor
MCOrder == <<"composed-fs", "docker-proxy">>
MCBlocking == {"composed-fs"}
MCHeeding == {"docker-proxy"}
=============================================================================
