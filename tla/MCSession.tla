------------------------------ MODULE MCSession ------------------------------
(* Three architectures, a directory with both formats of one of them, a file   *)
(* that cannot be parsed, and a source file below two architectures' names.    *)
EXTENDS Session

MCArchOrder == <<"arm", "x86", "x86_64">>

MCModels == {"arm.model", "x86.model", "x86.cnf", "x86_64.model", "bad/x86_64.cnf"}

MCStem ==
    [f \in MCModels |-> CASE f = "arm.model" -> "arm"
                          [] f \in {"x86.model", "x86.cnf"} -> "x86"
                          [] OTHER -> "x86_64"]

MCDirectory ==
    [d \in {"models/", "bad/"} |->
        IF d = "models/" THEN {"arm.model", "x86.model", "x86.cnf"}
        ELSE {"arm.model", "bad/x86_64.cnf"}]

MCSources == {"main.c", "arch/arm/kvm/x86/boot.c", "plat/x86/io.c", "mapped.c"}

MCArgs == MCModels \cup DOMAIN MCDirectory \cup MCSources

MCRule == [x \in MCArgs |-> IF x = "mapped.c" THEN "x86_64" ELSE ""]

MCSegments ==
    [x \in MCArgs |-> CASE x = "arch/arm/kvm/x86/boot.c" -> <<"arm", "x86">>
                        [] x = "plat/x86/io.c" -> <<"x86">>
                        [] OTHER -> <<>>]

MCFallback == [x \in MCArgs |-> IF x = "arch/arm/kvm/x86/boot.c" THEN "arm" ELSE ""]

MCCommands ==
    {<<>>, <<"x86_64.model">>, <<"models/">>, <<"bad/", "models/">>,
     <<"arm.model", "x86_64.model">>}

MCOptions ==
    [main : {"default", "arm", "x86_64"}, unikraft : BOOLEAN, lists : BOOLEAN,
     decision : {FALSE}, jobs : {<<>>, <<"cpppc">>, <<"cpppc_decision", "mergeblockconf">>},
     input : {"prompt", "file", "files"}, models : MCCommands]
===============================================================================
