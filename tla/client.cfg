\* A write, a login and a logout of one tab, with or without a session.
SPECIFICATION Spec
CONSTANTS
    get = get  post = post  in = in  out = out
    Calls = {post, in, out}
    Kind <- OneOfEach
    Start = Start
    None = None
CHECK_DEADLOCK FALSE
INVARIANTS TypeOK SingleFlight ChangesHappenOnce OnlyEndedSessionsFail
PROPERTIES EveryCallSettles
