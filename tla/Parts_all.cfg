\* The parts beside the tasks, the rooms and the chat's lanes, one at a time.
SPECIFICATION PartsSpec
CONSTANTS
    chrome = chrome
    edge = edge
    c1 = c1
    web = web
    dash = dash
    panel1 = panel1
    other = other
    main = main
    p1 = p1
    p2 = p2
    gw = gw
    webA = webA
    t1 = t1
    t2 = t2
    s1 = s1
    s2 = s2
    none = none
    hub = hub
    cli = cli
    plug = plug
    laneA = laneA
    hook = hook
    ticker = ticker
    file1 = file1
    file2 = file2
    urlA = urlA
    urlB = urlB
    g1 = g1
    g2 = g2
    s3 = s3
    tien = tien
    hue = hue
    work = work
    guest = guest
    home = home
    own = own
    rotation = rotation
    Processes = {p1, p2}
    Carrier = p1
    Versions = {0, 2, 10}
    Letters = {1}
    Lines = {1}
    MaxCrashes = 1
INVARIANTS
    TypesOK
    NothingIsLost
    NothingIsMixedUp

    
CHECK_DEADLOCK FALSE
