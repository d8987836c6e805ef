-------------------------------- MODULE MCFs --------------------------------
EXTENDS Fs, TLC

Call(op, path) == [op |-> op, path |-> path, new |-> <<>>, relative |-> FALSE, write |-> TRUE]

MCCalls == {
    Call("open", <<"f">>), Call("open", <<"d">>), Call("open", <<"d", "f">>),
    [Call("open", <<"d">>) EXCEPT !.write = FALSE],
    Call("create", <<"d", "f">>), Call("create", <<"f">>),
    [Call("create", <<"f">>) EXCEPT !.relative = TRUE],
    Call("mkdir", <<"d", "d">>), Call("mknod", <<"d", "f">>),
    Call("unlink", <<"f">>), Call("unlink", <<"d">>), Call("unlink", <<"d", "f">>),
    [Call("link", <<"f">>) EXCEPT !.new = <<"d", "f">>],
    Call("link", <<"d">>), Call("chdir", <<"d">>), Call("chdir", <<"f">>),
    Call("read", <<>>), Call("write", <<>>), Call("close", <<>>)}

Symmetry == Permutations(Proc)
====
